---- MODULE Spec2Model ----
(***************************************************************************)
(* The Intcode machine (src/src/intcode.rs), the thread-per-amplifier      *)
(* pipeline built on it (src/src/day07.rs) and the single-threaded         *)
(* machine and loops of src/src/day7.rs.                                   *)
(***************************************************************************)
EXTENDS Integers, Sequences, FiniteSets, TLC

\* intcode.rs:7  const MEMORY: usize = 4096
MEMORY == 4096

\* Longest phase list handed to amplification_circuit / feedback_loop.
MaxPhases == 2
\* Phase values are drawn from 0..MaxPhase.
MaxPhase == 1

(***************************************************************************)
(* Programs the calls are checked on.                                      *)
(*  1  empty program                                                       *)
(*  2  99                      halts at once                               *)
(*  3  3,0,4,0,99              echoes its first input                      *)
(*  4  3,0,3,1,4,1,99          reads phase and signal, echoes the signal   *)
(*  5  3,0,3,1,3,2,99          reads three inputs                          *)
(*  6  3,0,3,1,4,1,104,7,99    reads phase and signal, emits twice         *)
(*  7  3,0,1005,0,6,99,3,0,4,0,99                                          *)
(*       phase 0: halts silently; otherwise echoes the signal once         *)
(*  8  3,15,3,16,4,16,1005,15,13,3,16,3,16,99,0,0,0                        *)
(*       echoes the signal and halts when phase # 0; when phase = 0 it     *)
(*       echoes the signal, then reads two more inputs before it halts     *)
(*  9  3,19,3,20,101,-5,19,19,1005,19,12,99,101,1,20,20,4,20,99,0,0        *)
(*       phase 5: halts silently; otherwise emits the signal plus one      *)
(***************************************************************************)
Programs ==
  << << >>,
     << 99 >>,
     << 3, 0, 4, 0, 99 >>,
     << 3, 0, 3, 1, 4, 1, 99 >>,
     << 3, 0, 3, 1, 3, 2, 99 >>,
     << 3, 0, 3, 1, 4, 1, 104, 7, 99 >>,
     << 3, 0, 1005, 0, 6, 99, 3, 0, 4, 0, 99 >>,
     << 3, 15, 3, 16, 4, 16, 1005, 15, 13, 3, 16, 3, 16, 99, 0, 0, 0 >>,
     << 3, 19, 3, 20, 101, -5, 19, 19, 1005, 19, 12, 99,
        101, 1, 20, 20, 4, 20, 99, 0, 0 >> >>

PhaseLists == UNION { [1..n -> 0..MaxPhase] : n \in 0..MaxPhases }

(***************************************************************************)
(* The values of the words.  A value within -MaxInt..MaxInt is an integer  *)
(* of the model; any other value is the record of its sign and of its      *)
(* base-10000 digits, least significant first (no leading zero digit).     *)
(* The printed form of such a record is longer than that of an integer.    *)
(***************************************************************************)
MaxInt == 2147483647

Limb == 10000

\* The digits of MaxInt.
MaxIntLimbs == << 3647, 4748, 21 >>

\* 2^16 and 2^15: a word of 32 or 64 bits is two or four pieces of 16 bits.
Piece == 2^16

HalfPiece == 2^15

Big(v) == Len(ToString(v)) > 11

Abs(a) == IF a >= 0 THEN a ELSE -a

RECURSIVE ToLimbs(_)
ToLimbs(n) == IF n = 0 THEN << >> ELSE << n % Limb >> \o ToLimbs(n \div Limb)

LimbAt(x, k) == IF k \in DOMAIN x THEN x[k] ELSE 0

RECURSIVE SumTo(_, _)
SumTo(f, n) == IF n = 0 THEN 0 ELSE f[n] + SumTo(f, n - 1)

\* Digit k of a product before the carry: the sum of x[j] * y[k + 1 - j].
Column(x, y, k) == SumTo([j \in 1..k |-> LimbAt(x, j) * LimbAt(y, k + 1 - j)], k)

RECURSIVE Carried(_, _, _, _)
Carried(col, k, n, carry) ==
  IF k > n THEN (IF carry = 0 THEN << >> ELSE ToLimbs(carry))
  ELSE << (col[k] + carry) % Limb >>
         \o Carried(col, k + 1, n, (col[k] + carry) \div Limb)

RECURSIVE Trimmed(_)
Trimmed(x) ==
  IF x # << >> /\ x[Len(x)] = 0 THEN Trimmed(SubSeq(x, 1, Len(x) - 1)) ELSE x

Wide(neg, limbs) == [neg |-> neg, limbs |-> limbs]

\* Sign and digits of a value.
IsNeg(v) == IF Big(v) THEN v.neg ELSE v < 0

Mag(v) == IF Big(v) THEN v.limbs ELSE ToLimbs(Abs(v))

\* -1, 0, 1 as the digits x are below, equal to or above the digits y.
RECURSIVE CmpFrom(_, _, _)
CmpFrom(x, y, k) ==
  IF k = 0 THEN 0
  ELSE IF x[k] # y[k] THEN (IF x[k] < y[k] THEN -1 ELSE 1)
  ELSE CmpFrom(x, y, k - 1)

CmpMag(x, y) ==
  IF Len(x) # Len(y) THEN (IF Len(x) < Len(y) THEN -1 ELSE 1)
  ELSE CmpFrom(x, y, Len(x))

\* The value of a sign and digits.
FromTrimmed(neg, t) ==
  IF CmpMag(t, MaxIntLimbs) <= 0
    THEN (IF neg THEN -1 ELSE 1)
           * (LimbAt(t, 1) + Limb * LimbAt(t, 2) + Limb * Limb * LimbAt(t, 3))
    ELSE Wide(neg, t)

FromMag(neg, limbs) == FromTrimmed(neg, Trimmed(limbs))

AddMag(x, y) ==
  LET n == IF Len(x) > Len(y) THEN Len(x) ELSE Len(y)
  IN  Trimmed(Carried([k \in 1..n |-> LimbAt(x, k) + LimbAt(y, k)], 1, n, 0))

\* x - y for x >= y
RECURSIVE Borrowed(_, _, _, _)
Borrowed(x, y, k, borrow) ==
  IF k > Len(x) THEN << >>
  ELSE LET d == x[k] - LimbAt(y, k) - borrow
       IN  IF d < 0 THEN << d + Limb >> \o Borrowed(x, y, k + 1, 1)
           ELSE << d >> \o Borrowed(x, y, k + 1, 0)

SubMag(x, y) == Trimmed(Borrowed(x, y, 1, 0))

MulMag(x, y) ==
  LET n == Len(x) + Len(y)
  IN  Trimmed(Carried([k \in 1..n |-> Column(x, y, k)], 1, n, 0))

\* Quotient and remainder of digits by a divisor of at most 2^16.
RECURSIVE DivFrom(_, _, _, _)
DivFrom(x, k, b, rem) ==
  IF k = 0 THEN [q |-> << >>, r |-> rem]
  ELSE LET cur  == rem * Limb + x[k]
           rest == DivFrom(x, k - 1, b, cur % b)
       IN  [q |-> Append(rest.q, cur \div b), r |-> rest.r]

DivSmall(x, b) ==
  LET d == DivFrom(x, Len(x), b, 0) IN [q |-> Trimmed(d.q), r |-> d.r]

\* The exact sum and product, and the order of two values.
SumMag(na, x, nb, y) ==
  FromMag(IF na = nb \/ CmpMag(x, y) >= 0 THEN na ELSE nb,
          IF na = nb THEN AddMag(x, y)
          ELSE IF CmpMag(x, y) >= 0 THEN SubMag(x, y) ELSE SubMag(y, x))

Sum(a, b) ==
  IF ~Big(a) /\ ~Big(b)
       /\ ~((a >= 0 /\ b >= 0 /\ a > MaxInt - b) \/ (a < 0 /\ b < 0 /\ -a > MaxInt + b))
    THEN a + b
  ELSE SumMag(IsNeg(a), Mag(a), IsNeg(b), Mag(b))

Product(a, b) ==
  IF ~Big(a) /\ ~Big(b) /\ (a = 0 \/ b = 0 \/ Abs(a) <= MaxInt \div Abs(b))
    THEN a * b
  ELSE FromMag(IsNeg(a) # IsNeg(b), MulMag(Mag(a), Mag(b)))

LessMag(na, x, nb, y) ==
  IF na # nb THEN na ELSE CmpMag(x, y) = (IF na THEN 1 ELSE -1)

Less(a, b) ==
  IF ~Big(a) /\ ~Big(b) THEN a < b ELSE LessMag(IsNeg(a), Mag(a), IsNeg(b), Mag(b))

Same(a, b) == Big(a) = Big(b) /\ a = b

(***************************************************************************)
(* Two's complement.  Pieces gives the low n pieces of 16 bits of digits   *)
(* (the digits modulo 2^(16 n)), FromPieces the digits of pieces, and      *)
(* Complement the digits of 2^(16 n) minus the pieces.  Wrap is the value  *)
(* an integer type of 16 n bits keeps of an exact result: `wrapping_add`,  *)
(* `wrapping_mul` and the `as` casts between integer types.                *)
(***************************************************************************)
RECURSIVE PiecesFrom(_, _)
PiecesFrom(d, n) ==
  IF n = 1 THEN << d.r >> ELSE << d.r >> \o PiecesFrom(DivSmall(d.q, Piece), n - 1)

Pieces(x, n) == PiecesFrom(DivSmall(x, Piece), n)

\* The digits hi * 2^16 + low.
Shifted(hi, low) ==
  Trimmed(Carried([k \in 1..Len(hi) |-> hi[k] * Piece], 1, Len(hi), low))

RECURSIVE FromPieces(_)
FromPieces(p) ==
  IF p = << >> THEN << >> ELSE Shifted(FromPieces(Tail(p)), Head(p))

Complement(p) ==
  AddMag(FromPieces([k \in 1..Len(p) |-> Piece - 1 - p[k]]), << 1 >>)

\* The pieces p are the magnitude of the value of sign neg itself: they are
\* below 2^(16 n - 1), or they are 2^(16 n - 1) and the value is negative.
Kept(neg, p, n) ==
  \/ p[n] < HalfPiece
  \/ neg /\ p[n] = HalfPiece /\ \A k \in 1..(n - 1) : p[k] = 0

Signed(neg, p, keep) ==
  IF \A k \in DOMAIN p : p[k] = 0 THEN 0
  ELSE FromMag(IF keep THEN neg ELSE ~neg, IF keep THEN FromPieces(p) ELSE Complement(p))

WrapPieces(neg, p, n) == Signed(neg, p, Kept(neg, p, n))

Wrap(v, n) == WrapPieces(IsNeg(v), Pieces(Mag(v), n), n)

\* An exact result as the type of 16 n bits keeps it; a value TLC holds as
\* an integer is one of the type.
Wrapped(exact, n) == IF Big(exact) THEN Wrap(exact, n) ELSE exact

\* The value is one of the integer type of 16 n bits.
Fits(v, n) == Same(Wrapped(v, n), v)

(***************************************************************************)
(* Rust integer division and remainder by a small divisor truncate toward  *)
(* zero.                                                                   *)
(***************************************************************************)
Negated(neg, n) == IF neg THEN -n ELSE n

DivT(a, b) ==
  IF Big(a) THEN FromMag(a.neg, DivSmall(a.limbs, b).q)
  ELSE Negated(a < 0, Abs(a) \div b)

RemT(a, b) ==
  IF Big(a) THEN Negated(a.neg, DivSmall(a.limbs, b).r)
  ELSE Negated(a < 0, Abs(a) % b)

RECURSIVE Pow10(_)
Pow10(k) == IF k = 0 THEN 1 ELSE 10 * Pow10(k - 1)

(***************************************************************************)
(* The mode of operand k (1, 2, 3) as the closure `next` takes it:         *)
(* `mode` starts as instruction / 100, and every call does                 *)
(* `let m = mode % 10; mode /= 10;`.                                       *)
(***************************************************************************)
RECURSIVE ModeAfter(_, _)
ModeAfter(mode, calls) ==
  IF calls = 0 THEN mode ELSE ModeAfter(DivT(mode, 10), calls - 1)

\* A closure that takes the digits most significant first.
ModeOf_Reversed(word, k) == RemT(ModeAfter(DivT(word, 100), 3 - k), 10)

ModeOf(word, k) == RemT(ModeAfter(DivT(word, 100), k - 1), 10)

(***************************************************************************)
(* intcode.rs memory: [i64; MEMORY], zero-filled, the program copied to    *)
(* its start.  A memory is held as a function on the cells written so far  *)
(* (the program's cells and every cell stored to); every other cell of     *)
(* 0..MEMORY-1 holds 0.  An index outside 0..MEMORY-1 (a negative i64 cast *)
(* to usize is far above MEMORY) panics.                                   *)
(***************************************************************************)
\* An index check that has no upper limit.
InBounds_NoLimit(a) == ~Big(a) /\ a >= 0

\* `a as usize` is an index of the memory.
InBounds(a) == ~Big(a) /\ a >= 0 /\ a < MEMORY

load(mem, address) == IF address \in DOMAIN mem THEN mem[address] ELSE 0

store(mem, address, v) ==
  [a \in (DOMAIN mem) \cup {address} |-> IF a = address THEN v ELSE mem[a]]

\* A constructor that leaves the memory zeroed.
NewMachine_Unloaded(program) ==
  [ pc            |-> 0,
    mem           |-> << >>,
    relative_base |-> 0,
    halted        |-> FALSE ]

\* IntcodeMachine::new; mem[..program.len()].copy_from_slice(program) panics
\* on a program longer than the memory, and no machine is made.
NoMachine == "panic"

NewMachine(program) ==
  IF Len(program) > MEMORY THEN NoMachine
  ELSE [ pc            |-> 0,
         mem           |-> [a \in 0..(Len(program) - 1) |-> program[a + 1]],
         relative_base |-> 0,
         halted        |-> FALSE ]

(***************************************************************************)
(* impl From<&mut IntcodeMachine> for Instruction                          *)
(***************************************************************************)
\* A table whose last arm takes every other word as Exit.
Opcodes_Lenient == (-99..99)

Opcodes == {1, 2, 3, 4, 5, 6, 7, 8, 9, 99}

\* A table in which Output takes its operand as a write operand.
Perms_OutputAddress(opcode) ==
  CASE opcode \in {1, 2, 7, 8} -> << "Read", "Read", "Write" >>
    [] opcode \in {3, 4}       -> << "Write" >>
    [] opcode = 9              -> << "Read" >>
    [] opcode \in {5, 6}       -> << "Read", "Read" >>
    [] OTHER                   -> << >>

\* The access of each operand, in the order the match arm calls next(perm).
Perms(opcode) ==
  CASE opcode \in {1, 2, 7, 8} -> << "Read", "Read", "Write" >>
    [] opcode = 3              -> << "Write" >>
    [] opcode \in {4, 9}       -> << "Read" >>
    [] opcode \in {5, 6}       -> << "Read", "Read" >>
    [] OTHER                   -> << >>

(***************************************************************************)
(* The arithmetic of the i64 words: r1 + r2 and r1 * r2 as a release build *)
(* computes them (wrapping); Overflows64 tells where the exact result is   *)
(* no i64, which is where a debug build panics.                            *)
(***************************************************************************)
\* A product truncated to 32 bits.
Mul64_Truncated(a, b) == Wrap(Product(a, b), 2)

\* r1 * r2
Mul64(a, b) == Wrapped(Product(a, b), 4)

\* r1 + r2
Add64(a, b) == Wrapped(Sum(a, b), 4)

Overflows64(exact) == ~Fits(exact, 4)

\* The same in the i32 words of day2.rs, day5.rs and day7.rs.
Add32(a, b) == Wrapped(Sum(a, b), 2)

Mul32(a, b) == Wrapped(Product(a, b), 2)

Overflows32(exact) == ~Fits(exact, 2)

\* An exact result in the type of 16 n bits: val as a release build keeps
\* it, overflow where a debug build panics.
CheckedAs(exact, wrapped) == [val |-> wrapped, overflow |-> ~Same(wrapped, exact)]

Checked(exact, n) == CheckedAs(exact, Wrapped(exact, n))

Fault == [ok |-> FALSE, val |-> 0, overflow |-> FALSE]

\* A closure whose relative mode ignores the relative base.
Operand_NoBase(m, k, perm) ==
  IF ~InBounds(m.pc) \/ ~InBounds(m.pc + k) THEN Fault
  ELSE LET word == load(m.mem, m.pc)
           mode == ModeOf(word, k)
           v    == load(m.mem, m.pc + k)
       IN  IF mode \notin {0, 1, 2} THEN Fault
           ELSE IF perm = "Read" /\ mode \in {0, 2}
                  THEN IF InBounds(v)
                         THEN [ok |-> TRUE, val |-> load(m.mem, v), overflow |-> FALSE]
                         ELSE Fault
           ELSE [ok |-> TRUE, val |-> v, overflow |-> FALSE]

\* The closure `next`: operand k (1..3) of the instruction word at m.pc.
\* ok is FALSE where the code panics in every build (fetch or load out of
\* bounds, mode digit outside 0..2).  val is the operand of a release
\* build, where relative_base + v wraps; overflow tells that the exact sum
\* is no i64, which is where a debug build panics.
\* The match on (perm, m) of the closure, v the operand's cell and a the
\* sum self.relative_base + v.
Resolve(m, perm, mode, v, a) ==
  IF mode \notin {0, 1, 2} THEN Fault
  ELSE IF perm = "Read" /\ mode = 0
         THEN IF InBounds(v)
                THEN [ok |-> TRUE, val |-> load(m.mem, v), overflow |-> FALSE]
                ELSE Fault
  ELSE IF perm = "Read" /\ mode = 2
         THEN IF InBounds(a.val)
                THEN [ok |-> TRUE, val |-> load(m.mem, a.val), overflow |-> a.overflow]
                ELSE [ok |-> FALSE, val |-> 0, overflow |-> a.overflow]
  ELSE IF perm = "Write" /\ mode = 2
         THEN [ok |-> TRUE, val |-> a.val, overflow |-> a.overflow]
  ELSE [ok |-> TRUE, val |-> v, overflow |-> FALSE]

Operand(m, k, perm) ==
  IF ~InBounds(m.pc) \/ ~InBounds(m.pc + k) THEN Fault
  ELSE Resolve(m, perm, ModeOf(load(m.mem, m.pc), k), load(m.mem, m.pc + k),
               Checked(Sum(m.relative_base, load(m.mem, m.pc + k)), 4))

\* The decoded instruction: the opcode, the resolved operands r[1..arity]
\* and the pc after the operands were consumed; overflow where the address
\* of an operand overflowed.
\* A decoder that leaves pc four cells on after every instruction.
Decode_FixedWidth(m) ==
  LET word   == load(m.mem, m.pc)
      opcode == RemT(word, 100)
      perms  == Perms(opcode)
      ops    == [k \in 1..Len(perms) |-> Operand(m, k, perms[k])]
  IN  IF ~InBounds(m.pc) \/ opcode \notin Opcodes
           \/ \E k \in 1..Len(perms) : ~ops[k].ok
        THEN [ok |-> FALSE, opcode |-> 0, r |-> << >>, pc |-> m.pc, overflow |-> FALSE]
        ELSE [ok |-> TRUE, opcode |-> opcode,
              r |-> [k \in 1..Len(perms) |-> ops[k].val],
              pc |-> m.pc + 4,
              overflow |-> \E k \in 1..Len(perms) : ops[k].overflow]

\* The instruction of the opcode with the operands ops the closure gave.
Decoded(m, opcode, ops) ==
  IF ~InBounds(m.pc) \/ opcode \notin Opcodes \/ \E k \in DOMAIN ops : ~ops[k].ok
    THEN [ok |-> FALSE, opcode |-> 0, r |-> << >>, pc |-> m.pc, overflow |-> FALSE]
    ELSE [ok |-> TRUE, opcode |-> opcode,
          r |-> [k \in DOMAIN ops |-> ops[k].val],
          pc |-> m.pc + 1 + Len(ops),
          overflow |-> \E k \in DOMAIN ops : ops[k].overflow]

\* The arm of the opcode: one call of the closure for each operand.
DecodeArm(m, opcode) ==
  Decoded(m, opcode, [k \in 1..Len(Perms(opcode)) |-> Operand(m, k, Perms(opcode)[k])])

Decode(m) == DecodeArm(m, RemT(load(m.mem, m.pc), 100))

(***************************************************************************)
(* IntcodeMachine::tick, the arms that touch no channel, as a release      *)
(* build executes them.  ok is FALSE where the store panics (address       *)
(* outside the memory).                                                    *)
(***************************************************************************)
\* A store that also writes the cell after the address.
StoreTo_Smear(m, d, address, v) ==
  IF InBounds(address)
    THEN [ok |-> TRUE,
          m |-> [m EXCEPT !.pc = d.pc,
                          !.mem = store(store(m.mem, address, v), address + 1, v)]]
    ELSE [ok |-> FALSE, m |-> m]

StoreTo(m, d, address, v) ==
  IF InBounds(address)
    THEN [ok |-> TRUE, m |-> [m EXCEPT !.pc = d.pc, !.mem = store(m.mem, address, v)]]
    ELSE [ok |-> FALSE, m |-> m]

\* A tick whose jumps test the raw first operand cell, not the resolved
\* operand.
TickLocal_RawCondition(m, d) ==
  CASE d.opcode = 1 -> StoreTo(m, d, d.r[3], Add64(d.r[1], d.r[2]))
    [] d.opcode = 2 -> StoreTo(m, d, d.r[3], Mul64(d.r[1], d.r[2]))
    [] d.opcode = 5 ->
         [ok |-> TRUE,
          m |-> [m EXCEPT !.pc = IF ~Same(load(m.mem, m.pc + 1), 0) THEN d.r[2] ELSE d.pc]]
    [] d.opcode = 6 ->
         [ok |-> TRUE,
          m |-> [m EXCEPT !.pc = IF Same(load(m.mem, m.pc + 1), 0) THEN d.r[2] ELSE d.pc]]
    [] d.opcode = 7 -> StoreTo(m, d, d.r[3], IF Less(d.r[1], d.r[2]) THEN 1 ELSE 0)
    [] d.opcode = 8 -> StoreTo(m, d, d.r[3], IF Same(d.r[1], d.r[2]) THEN 1 ELSE 0)
    [] d.opcode = 9 ->
         [ok |-> TRUE,
          m |-> [m EXCEPT !.pc = d.pc, !.relative_base = Add64(m.relative_base, d.r[1])]]
    [] OTHER ->
         [ok |-> TRUE, m |-> [m EXCEPT !.pc = d.pc, !.halted = TRUE]]

\* A tick whose taken jumps also reset the relative base.
TickLocal_JumpClearsBase(m, d) ==
  CASE d.opcode = 1 -> StoreTo(m, d, d.r[3], Add64(d.r[1], d.r[2]))
    [] d.opcode = 2 -> StoreTo(m, d, d.r[3], Mul64(d.r[1], d.r[2]))
    [] d.opcode = 5 ->
         [ok |-> TRUE,
          m |-> IF ~Same(d.r[1], 0) THEN [m EXCEPT !.pc = d.r[2], !.relative_base = 0]
                ELSE [m EXCEPT !.pc = d.pc]]
    [] d.opcode = 6 ->
         [ok |-> TRUE,
          m |-> IF Same(d.r[1], 0) THEN [m EXCEPT !.pc = d.r[2], !.relative_base = 0]
                ELSE [m EXCEPT !.pc = d.pc]]
    [] d.opcode = 7 -> StoreTo(m, d, d.r[3], IF Less(d.r[1], d.r[2]) THEN 1 ELSE 0)
    [] d.opcode = 8 -> StoreTo(m, d, d.r[3], IF Same(d.r[1], d.r[2]) THEN 1 ELSE 0)
    [] d.opcode = 9 ->
         [ok |-> TRUE,
          m |-> [m EXCEPT !.pc = d.pc, !.relative_base = Add64(m.relative_base, d.r[1])]]
    [] OTHER ->
         [ok |-> TRUE, m |-> [m EXCEPT !.pc = d.pc, !.halted = TRUE]]

\* A tick whose Exit also resets the relative base.
TickLocal_ExitClearsBase(m, d) ==
  CASE d.opcode = 1 -> StoreTo(m, d, d.r[3], Add64(d.r[1], d.r[2]))
    [] d.opcode = 2 -> StoreTo(m, d, d.r[3], Mul64(d.r[1], d.r[2]))
    [] d.opcode = 5 ->
         [ok |-> TRUE, m |-> [m EXCEPT !.pc = IF ~Same(d.r[1], 0) THEN d.r[2] ELSE d.pc]]
    [] d.opcode = 6 ->
         [ok |-> TRUE, m |-> [m EXCEPT !.pc = IF Same(d.r[1], 0) THEN d.r[2] ELSE d.pc]]
    [] d.opcode = 7 -> StoreTo(m, d, d.r[3], IF Less(d.r[1], d.r[2]) THEN 1 ELSE 0)
    [] d.opcode = 8 -> StoreTo(m, d, d.r[3], IF Same(d.r[1], d.r[2]) THEN 1 ELSE 0)
    [] d.opcode = 9 ->
         [ok |-> TRUE,
          m |-> [m EXCEPT !.pc = d.pc, !.relative_base = Add64(m.relative_base, d.r[1])]]
    [] OTHER ->
         [ok |-> TRUE,
          m |-> [m EXCEPT !.pc = d.pc, !.halted = TRUE, !.relative_base = 0]]

TickLocal(m, d) ==
  CASE d.opcode = 1 -> StoreTo(m, d, d.r[3], Add64(d.r[1], d.r[2]))
    [] d.opcode = 2 -> StoreTo(m, d, d.r[3], Mul64(d.r[1], d.r[2]))
    [] d.opcode = 5 ->
         [ok |-> TRUE, m |-> [m EXCEPT !.pc = IF ~Same(d.r[1], 0) THEN d.r[2] ELSE d.pc]]
    [] d.opcode = 6 ->
         [ok |-> TRUE, m |-> [m EXCEPT !.pc = IF Same(d.r[1], 0) THEN d.r[2] ELSE d.pc]]
    [] d.opcode = 7 -> StoreTo(m, d, d.r[3], IF Less(d.r[1], d.r[2]) THEN 1 ELSE 0)
    [] d.opcode = 8 -> StoreTo(m, d, d.r[3], IF Same(d.r[1], d.r[2]) THEN 1 ELSE 0)
    [] d.opcode = 9 ->
         [ok |-> TRUE,
          m |-> [m EXCEPT !.pc = d.pc, !.relative_base = Add64(m.relative_base, d.r[1])]]
    [] OTHER ->
         [ok |-> TRUE, m |-> [m EXCEPT !.pc = d.pc, !.halted = TRUE]]

\* The instruction decoded as d overflows the i64 in its operands, in
\* r1 + r2, in r1 * r2 or in relative_base += r1: a debug build panics
\* there ("attempt to add with overflow"), a release build goes on with
\* the wrapped value as TickLocal gives it.
TickOverflows(m, d) ==
  \/ d.overflow
  \/ /\ d.opcode \in {1, 2, 9}
     /\ Overflows64(IF d.opcode = 2 THEN Product(d.r[1], d.r[2])
                    ELSE Sum(IF d.opcode = 9 THEN m.relative_base ELSE d.r[1],
                             IF d.opcode = 9 THEN d.r[1] ELSE d.r[2]))

\* A loop of run() that does not look at the halted flag.
RunLoop_Unchecked(m) == TRUE

\* intcode.rs:194  while !self.halted
RunLoop(m) == ~m.halted

(***************************************************************************)
(* The machine of day7.rs: memory is the program itself (a Vec<i32> of the *)
(* program's length), operands are position or immediate, there is no      *)
(* opcode 9, and input and output are LinkedLists filled with push_front   *)
(* and emptied with pop_back.                                              *)
(***************************************************************************)
push_front(list, v) == << v >> \o list

pop_back(list) == SubSeq(list, 1, Len(list) - 1)

back(list) == list[Len(list)]

\* `a as usize` is an index of the Vec.
InVec(mem, a) == ~Big(a) /\ a \in DOMAIN mem

\* day7.rs IntcodeMachine::new
NewMachine7(program) ==
  [ pc     |-> 0,
    mem    |-> [a \in 0..(Len(program) - 1) |-> program[a + 1]],
    input  |-> << >>,
    output |-> << >>,
    halted |-> FALSE ]

\* day7.rs IntcodeMachine::push_input
push_input(m, v) == [m EXCEPT !.input = push_front(m.input, v)]

Opcodes7 == {1, 2, 3, 4, 5, 6, 7, 8, 99}

\* "Mode": the operand goes through mode_next; "Raw": it is machine.next().
Kinds7(opcode) ==
  CASE opcode \in {1, 2, 7, 8} -> << "Mode", "Mode", "Raw" >>
    [] opcode = 3              -> << "Raw" >>
    [] opcode = 4              -> << "Mode" >>
    [] opcode \in {5, 6}       -> << "Mode", "Mode" >>
    [] OTHER                   -> << >>

Fault7 == [ok |-> FALSE, val |-> 0]

\* Operand k of the instruction word at m.pc; ok is FALSE where the code
\* panics (index out of the Vec, mode digit outside 0..1).
Resolve7(m, direct, mode, v) ==
  IF direct THEN [ok |-> TRUE, val |-> v]
  ELSE IF mode = 0
         THEN IF InVec(m.mem, v) THEN [ok |-> TRUE, val |-> m.mem[v]]
              ELSE Fault7
  ELSE IF mode = 1 THEN [ok |-> TRUE, val |-> v]
  ELSE Fault7

Operand7(m, k, kind) ==
  IF ~InVec(m.mem, m.pc + k) THEN Fault7
  ELSE Resolve7(m, kind = "Raw", ModeOf(m.mem[m.pc], k), m.mem[m.pc + k])

\* day7.rs impl From<&mut IntcodeMachine> for Instruction
Decoded7(m, opcode, ops) ==
  IF opcode \notin Opcodes7 \/ \E k \in DOMAIN ops : ~ops[k].ok
    THEN [ok |-> FALSE, opcode |-> 0, r |-> << >>, pc |-> m.pc]
    ELSE [ok |-> TRUE, opcode |-> opcode,
          r |-> [k \in DOMAIN ops |-> ops[k].val],
          pc |-> m.pc + 1 + Len(ops)]

DecodeArm7(m, opcode) ==
  Decoded7(m, opcode, [k \in 1..Len(Kinds7(opcode)) |-> Operand7(m, k, Kinds7(opcode)[k])])

Decode7(m) ==
  IF ~InVec(m.mem, m.pc)
    THEN [ok |-> FALSE, opcode |-> 0, r |-> << >>, pc |-> m.pc]
    ELSE DecodeArm7(m, RemT(m.mem[m.pc], 100))

StoreTo7(m, d, address, v) ==
  IF InVec(m.mem, address)
    THEN [ok |-> TRUE, m |-> [m EXCEPT !.pc = d.pc, !.mem[address] = v]]
    ELSE [ok |-> FALSE, m |-> m]

\* A tick whose Input stores 0 when the queue is empty.
Tick7_DefaultInput(m) ==
  LET d == Decode7(m)
  IN  IF ~d.ok THEN [ok |-> FALSE, m |-> m]
      ELSE CASE d.opcode = 1 -> StoreTo7(m, d, d.r[3], Add32(d.r[1], d.r[2]))
             [] d.opcode = 2 -> StoreTo7(m, d, d.r[3], Mul32(d.r[1], d.r[2]))
             [] d.opcode = 3 ->
                  IF m.input = << >> THEN StoreTo7(m, d, d.r[1], 0)
                  ELSE StoreTo7([m EXCEPT !.input = pop_back(m.input)], d,
                                d.r[1], back(m.input))
             [] d.opcode = 4 ->
                  [ok |-> TRUE,
                   m |-> [m EXCEPT !.pc = d.pc, !.output = push_front(m.output, d.r[1])]]
             [] d.opcode = 5 ->
                  [ok |-> TRUE, m |-> [m EXCEPT !.pc = IF ~Same(d.r[1], 0) THEN d.r[2] ELSE d.pc]]
             [] d.opcode = 6 ->
                  [ok |-> TRUE, m |-> [m EXCEPT !.pc = IF Same(d.r[1], 0) THEN d.r[2] ELSE d.pc]]
             [] d.opcode = 7 -> StoreTo7(m, d, d.r[3], IF Less(d.r[1], d.r[2]) THEN 1 ELSE 0)
             [] d.opcode = 8 -> StoreTo7(m, d, d.r[3], IF Same(d.r[1], d.r[2]) THEN 1 ELSE 0)
             [] OTHER ->
                  [ok |-> TRUE, m |-> [m EXCEPT !.pc = d.pc, !.halted = TRUE]]

\* day7.rs IntcodeMachine::tick as a release build executes it (r1 + r2 and
\* r1 * r2 wrap to 32 bits), Execute7 the match on the instruction d that
\* self.into() decoded; ok is FALSE where it panics.
Execute7(m, d) ==
      IF ~d.ok THEN [ok |-> FALSE, m |-> m]
      ELSE CASE d.opcode = 1 -> StoreTo7(m, d, d.r[3], Add32(d.r[1], d.r[2]))
             [] d.opcode = 2 -> StoreTo7(m, d, d.r[3], Mul32(d.r[1], d.r[2]))
             [] d.opcode = 3 ->
                  IF m.input = << >> THEN [ok |-> FALSE, m |-> m]
                  ELSE StoreTo7([m EXCEPT !.input = pop_back(m.input)], d,
                                d.r[1], back(m.input))
             [] d.opcode = 4 ->
                  [ok |-> TRUE,
                   m |-> [m EXCEPT !.pc = d.pc, !.output = push_front(m.output, d.r[1])]]
             [] d.opcode = 5 ->
                  [ok |-> TRUE, m |-> [m EXCEPT !.pc = IF ~Same(d.r[1], 0) THEN d.r[2] ELSE d.pc]]
             [] d.opcode = 6 ->
                  [ok |-> TRUE, m |-> [m EXCEPT !.pc = IF Same(d.r[1], 0) THEN d.r[2] ELSE d.pc]]
             [] d.opcode = 7 -> StoreTo7(m, d, d.r[3], IF Less(d.r[1], d.r[2]) THEN 1 ELSE 0)
             [] d.opcode = 8 -> StoreTo7(m, d, d.r[3], IF Same(d.r[1], d.r[2]) THEN 1 ELSE 0)
             [] OTHER ->
                  [ok |-> TRUE, m |-> [m EXCEPT !.pc = d.pc, !.halted = TRUE]]

Tick7(m) == Execute7(m, Decode7(m))

\* r1 + r2 or r1 * r2 of the decoded instruction d is no i32: a debug build
\* panics there ("attempt to add with overflow", "attempt to multiply with
\* overflow"), a release build stores the wrapped value.
Overflows7(d) ==
  /\ d.ok
  /\ \/ d.opcode = 1 /\ Overflows32(Sum(d.r[1], d.r[2]))
     \/ d.opcode = 2 /\ Overflows32(Product(d.r[1], d.r[2]))

\* A run loop that does not look at the halted flag.
RunLoop7_Unchecked(m) == TRUE

\* day7.rs:85  while !self.halted
RunLoop7(m) == ~m.halted

\* A run_output loop that runs until the machine halts.
RunOutputLoop7_UntilHalt(m) == ~m.halted

\* day7.rs:91  while !self.halted && self.output.is_empty()
RunOutputLoop7(m) == ~m.halted /\ m.output = << >>

(***************************************************************************)
(* The machine of day5.rs: memory is a Vec<i32> of the program's length,   *)
(* input and output are Vecs (input.pop() takes the last element,          *)
(* output.push appends).  IntcodeMachine::next returns `v as usize`: a     *)
(* negative cell becomes 2^64 + v, which is no index of the memory, and    *)
(* opcode and mode are taken from that usize.  2^64 = 100 * q + 16 with q  *)
(* ending in the digits 516, so for v < 0 the opcode is (16 + v) mod 100   *)
(* and the low three digits of the mode are (516 + (16 + v) div 100) mod   *)
(* 1000; the operands that go through Instruction::next use two of them.   *)
(***************************************************************************)
Opcode5(word) == IF ~IsNeg(word) THEN word % 100 ELSE Sum(16, word) % 100

Mode5(word) ==
  IF ~IsNeg(word) THEN word \div 100 ELSE (516 + (Sum(16, word) \div 100)) % 1000

\* day5.rs IntcodeMachine::new
NewMachine5(program, input) ==
  [ pc     |-> 0,
    mem    |-> [a \in 0..(Len(program) - 1) |-> program[a + 1]],
    input  |-> input,
    output |-> << >>,
    halted |-> FALSE ]

\* "Mode": the operand goes through Instruction::next; "Ptr": next_ptr.
Kinds5(opcode) ==
  CASE opcode \in {1, 2, 7, 8} -> << "Mode", "Mode", "Ptr" >>
    [] opcode = 3              -> << "Ptr" >>
    [] opcode = 4              -> << "Mode" >>
    [] opcode \in {5, 6}       -> << "Mode", "Mode" >>
    [] OTHER                   -> << >>

\* Operand k of the instruction word at m.pc; ok is FALSE where the code
\* panics (index out of the Vec, mode digit outside 0..1).
Operand5(m, k, kind) ==
  IF ~InVec(m.mem, m.pc + k) THEN Fault7
  ELSE Resolve7(m, kind = "Ptr", ModeAfter(Mode5(m.mem[m.pc]), k - 1) % 10,
                m.mem[m.pc + k])

\* day5.rs Instruction::new and the operands Instruction::execute takes
DecodeArm5(m, opcode) ==
  Decoded7(m, opcode, [k \in 1..Len(Kinds5(opcode)) |-> Operand5(m, k, Kinds5(opcode)[k])])

Decode5(m) ==
  IF ~InVec(m.mem, m.pc)
    THEN [ok |-> FALSE, opcode |-> 0, r |-> << >>, pc |-> m.pc]
    ELSE DecodeArm5(m, Opcode5(m.mem[m.pc]))

\* day5.rs IntcodeMachine::tick (Instruction::new(self).execute()) as a
\* release build executes it, Execute5 the execute() of the instruction d;
\* ok is FALSE where it panics.  Overflows7 of Decode5(m) tells where a
\* debug build panics in add and multiply.
Execute5(m, d) ==
      IF ~d.ok THEN [ok |-> FALSE, m |-> m]
      ELSE CASE d.opcode = 1 -> StoreTo7(m, d, d.r[3], Add32(d.r[1], d.r[2]))
             [] d.opcode = 2 -> StoreTo7(m, d, d.r[3], Mul32(d.r[1], d.r[2]))
             [] d.opcode = 3 ->
                  IF m.input = << >> THEN [ok |-> FALSE, m |-> m]
                  ELSE StoreTo7([m EXCEPT !.input = SubSeq(m.input, 1, Len(m.input) - 1)],
                                d, d.r[1], m.input[Len(m.input)])
             [] d.opcode = 4 ->
                  [ok |-> TRUE,
                   m |-> [m EXCEPT !.pc = d.pc, !.output = Append(m.output, d.r[1])]]
             [] d.opcode = 5 ->
                  [ok |-> TRUE, m |-> [m EXCEPT !.pc = IF ~Same(d.r[1], 0) THEN d.r[2] ELSE d.pc]]
             [] d.opcode = 6 ->
                  [ok |-> TRUE, m |-> [m EXCEPT !.pc = IF Same(d.r[1], 0) THEN d.r[2] ELSE d.pc]]
             [] d.opcode = 7 -> StoreTo7(m, d, d.r[3], IF Less(d.r[1], d.r[2]) THEN 1 ELSE 0)
             [] d.opcode = 8 -> StoreTo7(m, d, d.r[3], IF Same(d.r[1], d.r[2]) THEN 1 ELSE 0)
             [] OTHER ->
                  [ok |-> TRUE, m |-> [m EXCEPT !.pc = d.pc, !.halted = TRUE]]

Tick5(m) == Execute5(m, Decode5(m))

\* day5.rs:144  while !self.halted
RunLoop5(m) == ~m.halted

(***************************************************************************)
(* The threaded pipeline of day07.rs.                                      *)
(*                                                                         *)
(* program, phases, call : the call amplification_circuit(program, phases) *)
(*                 or feedback_loop(program, phases) being executed        *)
(* opc           : the calling thread's position in that call              *)
(* it            : the index the scan closure of AmplificationCircuit::new *)
(*                 is at                                                   *)
(* jn            : the next amplifier join_amplifies joins                 *)
(* am[i]         : the IntcodeMachine moved into thread "Amplifier i"      *)
(* st[i]         : that thread: "unspawned", "created" (a machine whose    *)
(*                 caller has not called run() yet), "running" (in run's   *)
(*                 loop),                                                  *)
(*                 "drop_input" / "drop_output" (run's loop has ended, or  *)
(*                 the thread unwinds from a panic, and the machine's      *)
(*                 endpoints are being dropped), "finished"                *)
(* exit[i]       : how run's loop ended: "" (has not), "halted",           *)
(*                 "recv_err", "send_err", or "panic"                      *)
(* chan[k]       : channel k, the input of machine k (k < N) or the output *)
(*                 of machine N-1 (k = N): q the queued values, tx the     *)
(*                 holders of a live Sender, rx the holder of the Receiver *)
(*                 ("none" once dropped)                                   *)
(* handles       : the amplifiers whose JoinHandle the caller still holds  *)
(* joined        : the amplifiers that have been joined                    *)
(* last_output   : the local last_output of the call                       *)
(* got           : whether recv_output has returned Ok                     *)
(* result        : the call's return value once it has returned            *)
(* emitted[i], reads[i], observed : history, the values machine i has      *)
(*                 sent, machine i has received, recv_output has returned  *)
(***************************************************************************)
\* The overflow checks of the build: "on" where they are compiled in (a
\* debug build, where `+` and `*` panic on overflow), "off" where they are
\* not (a release build, where they wrap).  The two builds run alike until
\* an operation overflows: up to there the state is that of both builds,
\* "any", and the first overflow goes either way and fixes the build for
\* the rest of the run.
VARIABLE overflow_checks

Build == overflow_checks = "any"

\* The builds of a step whose arithmetic overflows (o) or does not.
Settings(o) == IF o /\ overflow_checks = "any" THEN {"on", "off"} ELSE {overflow_checks}

\* The builds that run as the run has gone so far, TRUE for "on".
Checks == {c \in BOOLEAN : overflow_checks \in {"any", IF c THEN "on" ELSE "off"}}

VARIABLES program, phases, call, opc, it, jn, am, st, exit, chan,
          handles, joined, last_output, got, result, emitted, reads, observed

(***************************************************************************)
(* The single-threaded callers of day7.rs.                                 *)
(*                                                                         *)
(* am7[i]     : the machines (amplifier i of the closure, or machine 0 of  *)
(*              a caller that uses the machine directly)                   *)
(* k7         : the amplifier the closure is at                            *)
(* pc7        : "push", "run", "run_output", "idle" (no call in progress), *)
(*              "returned", "crashed" (a panic unwound the caller)         *)
(* scan_input : the state `input` of amplification_circuit's scan          *)
(* yielded    : the last item that scan has yielded                        *)
(* ret7       : what the last run_output call returned                     *)
(* returned7  : history, the call on the machine that returned last: "",   *)
(*              "run" or "run_output"                                      *)
(* supplied7[i], reads7[i], taken7[i] : history, the values the caller has *)
(*              given machine i as input, the values its Input             *)
(*              instructions have read, the values the caller has taken    *)
(*              from its output                                            *)
(* emitted7[i]: history, the values machine i has pushed to its output     *)
(***************************************************************************)
VARIABLES am7, k7, pc7, scan_input, yielded, ret7, returned7, emitted7,
          supplied7, reads7, taken7

vars07 == << opc, it, jn, am, st, exit, chan, handles, joined, got,
             emitted, reads, observed >>

hist7 == << supplied7, reads7, taken7 >>

vars7 == << am7, k7, pc7, scan_input, yielded, ret7, returned7, emitted7, hist7 >>

\* The text handed to a program loader and what the loader returned.
VARIABLES text, parsed

varsP == << text, parsed >>

vars == << program, phases, call, overflow_checks, last_output, result, vars07, vars7, varsP >>

\* No loader call is modelled.
NotParsed == [loader |-> "", some |-> FALSE, v |-> << >>]

IdleP == text = << >> /\ parsed = NotParsed

N == Len(phases)

Amps == 0..(N - 1)

NoChannel == [q |-> << >>, tx |-> {}, rx |-> "none"]

\* intcode.rs:177-178 with None passed for input or output: the machine
\* holds no endpoint.
Absent == [q |-> << >>, tx |-> {}, rx |-> "absent"]

Pending == [state |-> "pending", v |-> 0]

None == [state |-> "none", v |-> 0]

Some(v) == [state |-> "some", v |-> v]

Panicked == [state |-> "panic", v |-> 0]

\* The state of the day7.rs part while a day07.rs call is modelled.
Idle7 ==
  /\ am7 = << >>
  /\ k7 = 0
  /\ pc7 = "none"
  /\ scan_input = 0
  /\ yielded = None
  /\ ret7 = None
  /\ returned7 = ""
  /\ emitted7 = << >>
  /\ supplied7 = << >>
  /\ reads7 = << >>
  /\ taken7 = << >>

Init ==
  /\ Build
  /\ IdleP
  /\ program \in {Programs[p] : p \in 1..Len(Programs)}
  /\ phases \in PhaseLists
  /\ call \in {"amplification_circuit", "feedback_loop"}
  /\ opc = "new"
  /\ it = 0
  /\ jn = 0
  /\ am = [i \in Amps |-> NewMachine(program)]
  /\ st = [i \in Amps |-> "unspawned"]
  /\ exit = [i \in Amps |-> ""]
  /\ chan = [k \in 0..N |-> NoChannel]
  /\ handles = {}
  /\ joined = {}
  /\ last_output = 0
  /\ got = FALSE
  /\ result = Pending
  /\ emitted = [i \in Amps |-> << >>]
  /\ reads = [i \in Amps |-> << >>]
  /\ observed = << >>
  /\ Idle7

(***************************************************************************)
(* std::sync::mpsc: send fails once the Receiver is dropped; recv returns  *)
(* the oldest queued value, fails when the queue is empty and every Sender *)
(* is dropped, and blocks otherwise.                                       *)
(***************************************************************************)
\* A send that never fails.
SendFails_Never(c) == FALSE

SendFails(c) == c.rx = "none"

RecvReady(c) == c.q # << >>

\* A recv that fails on an empty queue although a Sender is alive.
RecvFails_NoWait(c) == c.q = << >>

RecvFails(c) == c.q = << >> /\ c.tx = {}

\* self.input and self.output of machine i are Some: the machine was given
\* the endpoint (intcode.rs:177-178) and no call of run() has taken it
\* (intcode.rs:203-208).
HasInput(i) == chan[i].rx \notin {"absent", "none"}

HasOutput(i) == "machine" \in chan[i + 1].tx

\* Every endpoint the calling thread holds is dropped: the scan state, the
\* closure's locals, the vector of inputs and the output Receiver.
DropCaller(c) ==
  [c EXCEPT !.tx = c.tx \ {"scan", "local", "inputs"},
            !.rx = IF c.rx \in {"scan", "output"} THEN "none" ELSE c.rx]

\* A return that drops the circuit (or its parts) without joining: the
\* JoinHandles are dropped, which detaches the threads.
ReturnUnjoined(r) ==
  /\ chan' = [k \in DOMAIN chan |-> DropCaller(chan[k])]
  /\ handles' = {}
  /\ result' = r
  /\ opc' = "returned"

(***************************************************************************)
(* AmplificationCircuit::new                                               *)
(***************************************************************************)
\* day07.rs:15-19: no phases, no circuit; else the chain's input channel.
CircuitNew ==
  /\ opc = "new"
  /\ IF N = 0
       THEN /\ result' = None
            /\ opc' = "returned"
            /\ chan' = chan
       ELSE /\ chan' = [chan EXCEPT ![0] = [q |-> << >>, tx |-> {"scan"}, rx |-> "scan"]]
            /\ opc' = "spawn"
            /\ result' = result
  /\ UNCHANGED vars7
  /\ UNCHANGED << varsP, program, phases, call, overflow_checks, it, jn, am, st, exit, handles, joined,
                  last_output, got, emitted, reads, observed >>

\* day07.rs:25-37: the link channel, the machine, and its thread.  The
\* machine takes the Receiver the scan state held and a clone of tx_link.
ScanSpawn ==
  /\ opc = "spawn"
  /\ chan' = [chan EXCEPT ![it].rx = "machine",
                          ![it + 1] = [q |-> << >>, tx |-> {"local", "machine"},
                                       rx |-> "scan"]]
  /\ st' = [st EXCEPT ![it] = "running"]
  /\ opc' = "seed"
  /\ UNCHANGED vars7
  /\ UNCHANGED << varsP, program, phases, call, overflow_checks, it, jn, am, exit, handles, joined,
                  last_output, got, result, emitted, reads, observed >>

\* day07.rs:39-57: the phase is sent to the machine spawned just before.
\* A failed send ends the scan and new returns None; otherwise the old
\* Sender goes to inputs, tx_link into the scan state, and after the last
\* phase the scan state is dropped and the circuit is built.
ScanSeed ==
  /\ opc = "seed"
  /\ IF SendFails(chan[it])
       THEN /\ ReturnUnjoined(None)
            /\ it' = it
       ELSE /\ chan' =
                 [k \in DOMAIN chan |->
                    IF k = it
                      THEN [chan[k] EXCEPT !.q = Append(chan[k].q, phases[it + 1]),
                                           !.tx = (chan[k].tx \ {"scan"}) \cup {"inputs"}]
                    ELSE IF k = it + 1
                      THEN IF it = N - 1
                             THEN [chan[k] EXCEPT !.tx = chan[k].tx \ {"local"},
                                                  !.rx = "output"]
                             ELSE [chan[k] EXCEPT !.tx = (chan[k].tx \ {"local"}) \cup {"scan"}]
                    ELSE chan[k]]
            /\ handles' = handles \cup {it}
            /\ it' = it + 1
            /\ opc' = IF it = N - 1 THEN "send_input" ELSE "spawn"
            /\ result' = result
  /\ UNCHANGED vars7
  /\ UNCHANGED << varsP, program, phases, call, overflow_checks, jn, am, st, exit, joined,
                  last_output, got, emitted, reads, observed >>

(***************************************************************************)
(* amplification_circuit and feedback_loop                                 *)
(***************************************************************************)
\* day07.rs:81 and :93, circuit.send_input(..).ok()?  (send_input: 67-72)
SendInput ==
  /\ opc = "send_input"
  /\ IF SendFails(chan[0])
       THEN ReturnUnjoined(None)
       ELSE /\ chan' = [chan EXCEPT ![0].q = Append(chan[0].q, last_output)]
            /\ opc' = "recv_output"
            /\ UNCHANGED << handles, result >>
  /\ UNCHANGED vars7
  /\ UNCHANGED << varsP, program, phases, call, overflow_checks, it, jn, am, st, exit, joined,
                  last_output, got, emitted, reads, observed >>

\* day07.rs:83 and :96, circuit.recv_output()  (recv_output: 74-76)
RecvOutput ==
  /\ opc = "recv_output"
  /\ \/ /\ RecvReady(chan[N])
        /\ chan' = [chan EXCEPT ![N].q = Tail(chan[N].q)]
        /\ last_output' = Head(chan[N].q)
        /\ got' = TRUE
        /\ observed' = Append(observed, Head(chan[N].q))
        /\ opc' = IF call = "feedback_loop" THEN "send_loop" ELSE "join"
     \/ /\ RecvFails(chan[N])
        /\ opc' = "join"
        /\ UNCHANGED << chan, last_output, got, observed >>
  /\ UNCHANGED vars7
  /\ UNCHANGED << varsP, program, phases, call, overflow_checks, it, jn, am, st, exit, handles, joined,
                  result, emitted, reads >>

\* day07.rs:100-102: the value is fed back; a failed send ends the loop.
SendLoop ==
  /\ opc = "send_loop"
  /\ IF SendFails(chan[0])
       THEN /\ opc' = "join"
            /\ chan' = chan
       ELSE /\ chan' = [chan EXCEPT ![0].q = Append(chan[0].q, last_output)]
            /\ opc' = "recv_output"
  /\ UNCHANGED vars7
  /\ UNCHANGED << varsP, program, phases, call, overflow_checks, it, jn, am, st, exit, handles, joined,
                  last_output, got, result, emitted, reads, observed >>

\* join_amplifies (day07.rs:60-65): amplifier.join() returns once the thread
\* has finished.  self.inputs and self.output live until the joins are done.
Join ==
  /\ opc = "join"
  /\ jn < N
  /\ st[jn] = "finished"
  /\ joined' = joined \cup {jn}
  /\ handles' = handles \ {jn}
  /\ jn' = jn + 1
  /\ UNCHANGED vars7
  /\ UNCHANGED << varsP, program, phases, call, overflow_checks, opc, it, am, st, exit, chan,
                  last_output, got, result, emitted, reads, observed >>

\* day07.rs:85 last_output.ok()  and  :107 Some(last_output)
Return ==
  /\ opc = "join"
  /\ jn = N
  /\ chan' = [k \in DOMAIN chan |-> DropCaller(chan[k])]
  /\ result' = IF call = "feedback_loop" \/ got THEN Some(last_output) ELSE None
  /\ opc' = "returned"
  /\ UNCHANGED vars7
  /\ UNCHANGED << varsP, program, phases, call, overflow_checks, it, jn, am, st, exit, handles, joined,
                  last_output, got, emitted, reads, observed >>

(***************************************************************************)
(* Thread "Amplifier i": im.run()  (intcode.rs:193-209, tick: 225-273)     *)
(***************************************************************************)
\* run's loop ends (or the thread unwinds); the endpoints are dropped next.
\* A loop that ends by a panic whatever ended it.
LoopEnds_Panics(i, how) ==
  /\ st' = [st EXCEPT ![i] = "drop_input"]
  /\ exit' = [exit EXCEPT ![i] = "panic"]

LoopEnds(i, how) ==
  /\ st' = [st EXCEPT ![i] = "drop_input"]
  /\ exit' = [exit EXCEPT ![i] = how]

\* One turn of `while !self.halted { self.tick() ... }` on a machine that
\* touches no channel, or that panics while decoding.
TickCompute(i) ==
  /\ st[i] = "running"
  /\ \E d \in {Decode(am[i])} : \E t \in {TickLocal(am[i], d)} :
     \E o \in {d.ok /\ t.ok /\ TickOverflows(am[i], d)} :
         /\ ~d.ok \/ d.opcode \notin {3, 4}
         /\ \E b \in Settings(o) :
              /\ overflow_checks' = b
              /\ IF ~d.ok \/ ~t.ok \/ (o /\ b = "on")
                   THEN /\ LoopEnds(i, "panic")
                        /\ am' = am
                   ELSE /\ am' = [am EXCEPT ![i] = t.m]
                        /\ IF RunLoop(t.m)
                             THEN UNCHANGED << st, exit >>
                             ELSE LoopEnds(i, "halted")
  /\ UNCHANGED vars7
  /\ UNCHANGED << varsP, program, phases, call, opc, it, jn, chan, handles, joined,
                  last_output, got, result, emitted, reads, observed >>

\* Instruction::Input: self.input.as_ref().expect("Input channel expected"),
\* rx_input.recv()?, then store.  Panics when the machine was created
\* without an input channel, or an earlier call of run() has taken it;
\* blocks while the queue is empty and a Sender lives.  Where the address of the operand overflows, a build with
\* overflow checks has panicked in Instruction::from.
TickInput(i) ==
  /\ st[i] = "running"
  /\ \E d \in {Decode(am[i])} :
         /\ d.ok /\ d.opcode = 3
         /\ \E b \in Settings(d.overflow) :
              /\ overflow_checks' = b
              /\ \/ /\ d.overflow /\ b = "on"
                    /\ am' = am
                    /\ LoopEnds(i, "panic")
                    /\ UNCHANGED << chan, reads >>
                 \/ /\ ~(d.overflow /\ b = "on")
                    /\ ~HasInput(i)
                    /\ am' = am
                    /\ LoopEnds(i, "panic")
                    /\ UNCHANGED << chan, reads >>
                 \/ /\ ~(d.overflow /\ b = "on")
                    /\ HasInput(i)
                    /\ RecvReady(chan[i])
                    /\ chan' = [chan EXCEPT ![i].q = Tail(chan[i].q)]
                    /\ reads' = [reads EXCEPT ![i] = Append(reads[i], Head(chan[i].q))]
                    /\ LET t == StoreTo(am[i], d, d.r[1], Head(chan[i].q))
                       IN  IF t.ok
                             THEN /\ am' = [am EXCEPT ![i] = t.m]
                                  /\ UNCHANGED << st, exit >>
                             ELSE /\ am' = am
                                  /\ LoopEnds(i, "panic")
                 \/ /\ ~(d.overflow /\ b = "on")
                    /\ HasInput(i)
                    /\ RecvFails(chan[i])
                    /\ am' = [am EXCEPT ![i].pc = d.pc]
                    /\ LoopEnds(i, "recv_err")
                    /\ UNCHANGED << chan, reads >>
  /\ UNCHANGED vars7
  /\ UNCHANGED << varsP, program, phases, call, opc, it, jn, handles, joined,
                  last_output, got, result, emitted, observed >>

\* Instruction::Output: self.output.as_ref().expect("Output channel
\* expected"), tx_output.send(r1)?.  Panics when the machine was created
\* without an output channel, or an earlier call of run() has taken it.
TickOutput(i) ==
  /\ st[i] = "running"
  /\ \E d \in {Decode(am[i])} :
         /\ d.ok /\ d.opcode = 4
         /\ \E b \in Settings(d.overflow) :
              /\ overflow_checks' = b
              /\ am' = IF ~HasOutput(i) \/ (d.overflow /\ b = "on")
                         THEN am ELSE [am EXCEPT ![i].pc = d.pc]
              /\ IF ~HasOutput(i) \/ (d.overflow /\ b = "on")
                   THEN /\ LoopEnds(i, "panic")
                        /\ UNCHANGED << chan, emitted >>
                   ELSE IF SendFails(chan[i + 1])
                   THEN /\ LoopEnds(i, "send_err")
                        /\ UNCHANGED << chan, emitted >>
                   ELSE /\ chan' = [chan EXCEPT ![i + 1].q = Append(chan[i + 1].q, d.r[1])]
                        /\ emitted' = [emitted EXCEPT ![i] = Append(emitted[i], d.r[1])]
                        /\ UNCHANGED << st, exit >>
  /\ UNCHANGED vars7
  /\ UNCHANGED << varsP, program, phases, call, opc, it, jn, handles, joined,
                  last_output, got, result, reads, observed >>

\* intcode.rs:203-205 (or the unwinding of a panic): the Receiver is dropped.
DropInput(i) ==
  /\ st[i] = "drop_input"
  /\ chan' = IF chan[i] = Absent THEN chan ELSE [chan EXCEPT ![i].rx = "none"]
  /\ st' = [st EXCEPT ![i] = "drop_output"]
  /\ UNCHANGED vars7
  /\ UNCHANGED << varsP, program, phases, call, overflow_checks, opc, it, jn, am, exit, handles, joined,
                  last_output, got, result, emitted, reads, observed >>

\* A run that returns with the Sender of its output still alive.
DropOutput_KeepsSender(i) ==
  /\ st[i] = "drop_output"
  /\ st' = [st EXCEPT ![i] = "finished"]
  /\ UNCHANGED vars7
  /\ UNCHANGED << varsP, program, phases, call, overflow_checks, opc, it, jn, am, exit, chan, handles,
                  joined, last_output, got, result, emitted, reads, observed >>

\* intcode.rs:206-208: the Sender is dropped, run returns, the thread ends.
DropOutput(i) ==
  /\ st[i] = "drop_output"
  /\ chan' = [chan EXCEPT ![i + 1].tx = chan[i + 1].tx \ {"machine"}]
  /\ st' = [st EXCEPT ![i] = "finished"]
  /\ UNCHANGED vars7
  /\ UNCHANGED << varsP, program, phases, call, overflow_checks, opc, it, jn, am, exit, handles, joined,
                  last_output, got, result, emitted, reads, observed >>

Caller ==
  \/ CircuitNew
  \/ ScanSpawn
  \/ ScanSeed
  \/ SendInput
  \/ RecvOutput
  \/ SendLoop
  \/ Join
  \/ Return

Amplifier(i) ==
  \/ TickCompute(i)
  \/ TickInput(i)
  \/ TickOutput(i)
  \/ DropInput(i)
  \/ DropOutput(i)

Next == Caller \/ \E i \in DOMAIN am : Amplifier(i)

Spec == Init /\ [][Next]_vars

\* The calls of day07.rs with every thread scheduled: the calling thread and
\* each spawned machine thread take a step whenever they stay able to.
SpecFair ==
  /\ Init
  /\ [][Next]_vars
  /\ WF_vars(Caller)
  /\ \A i \in 0..(MaxPhases - 1) : WF_vars(i \in DOMAIN am /\ Amplifier(i))

(***************************************************************************)
(* day7.rs: the closures of amplification_circuit and feedback_loop (each  *)
(* applied to one permutation of the phases) and a caller that drives one  *)
(* machine through push_input, run and run_output.                         *)
(***************************************************************************)
\* (0..=4).permutations(5) and (5..=9).permutations(5)
Permutations5(S) ==
  {f \in [1..5 -> S] : \A a, b \in 1..5 : f[a] = f[b] => a = b}

\* The threaded part is not running while a day7.rs call is modelled.
Idle07 ==
  /\ opc = "none"
  /\ it = 0
  /\ jn = 0
  /\ am = << >>
  /\ st = << >>
  /\ exit = << >>
  /\ chan = << >>
  /\ handles = {}
  /\ joined = {}
  /\ got = FALSE
  /\ emitted = << >>
  /\ reads = << >>
  /\ observed = << >>

\* Most values a caller has pushed and the machine has not read yet.
MaxInputs == 2

Init7 ==
  /\ Build
  /\ IdleP
  /\ program \in {Programs[p] : p \in 1..Len(Programs)}
  /\ \/ call = "day7_amplification_circuit" /\ phases \in Permutations5(0..4)
     \/ call = "day7_feedback_loop" /\ phases \in Permutations5(5..9)
     \/ call = "day7_machine" /\ phases = << >>
  /\ am7 = IF call = "day7_machine"
             THEN [i \in {0} |-> NewMachine7(program)]
             ELSE [i \in Amps |-> push_input(NewMachine7(program), phases[i + 1])]
  /\ k7 = 0
  /\ pc7 = IF call = "day7_machine" THEN "idle" ELSE "push"
  /\ scan_input = 0
  /\ yielded = None
  /\ ret7 = None
  /\ returned7 = ""
  /\ emitted7 = [i \in DOMAIN am7 |-> << >>]
  /\ supplied7 = [i \in DOMAIN am7 |->
                    IF call = "day7_machine" THEN << >> ELSE << phases[i + 1] >>]
  /\ reads7 = [i \in DOMAIN am7 |-> << >>]
  /\ taken7 = [i \in DOMAIN am7 |-> << >>]
  /\ last_output = 0
  /\ result = Pending
  /\ Idle07

\* day7.rs:175-176 and :203, the signal is pushed and the machine is run
Push7 ==
  /\ pc7 = "push"
  /\ am7' = [am7 EXCEPT ![k7] =
               push_input(am7[k7], IF call = "day7_feedback_loop" THEN last_output
                                   ELSE scan_input)]
  /\ pc7' = IF call = "day7_feedback_loop" THEN "run_output" ELSE "run"
  /\ supplied7' = [supplied7 EXCEPT ![k7] =
                     Append(supplied7[k7], IF call = "day7_feedback_loop" THEN last_output ELSE scan_input)]
  /\ UNCHANGED << reads7, taken7 >>
  /\ UNCHANGED << varsP, program, phases, call, overflow_checks, last_output, result, vars07,
                  k7, scan_input, yielded, ret7, returned7, emitted7 >>

\* One turn of the loop of run (day7.rs:85-87) or of run_output (:91-93).
\* A panic in tick (or, with overflow checks, in its r1 + r2 or r1 * r2)
\* unwinds through the caller.
Step7 ==
  /\ \/ pc7 = "run" /\ RunLoop7(am7[k7])
     \/ pc7 = "run_output" /\ RunOutputLoop7(am7[k7])
  /\ \E t \in {Tick7(am7[k7])} : \E o \in {t.ok /\ Overflows7(Decode7(am7[k7]))} :
         \E b \in Settings(o) :
           /\ overflow_checks' = b
           /\ IF t.ok /\ ~(o /\ b = "on")
                THEN /\ am7' = [am7 EXCEPT ![k7] = t.m]
                     /\ emitted7' =
                          IF Len(t.m.output) > Len(am7[k7].output)
                            THEN [emitted7 EXCEPT ![k7] = Append(emitted7[k7], t.m.output[1])]
                            ELSE emitted7
                     /\ reads7' =
                          IF Len(t.m.input) < Len(am7[k7].input)
                            THEN [reads7 EXCEPT ![k7] = Append(reads7[k7], back(am7[k7].input))]
                            ELSE reads7
                     /\ UNCHANGED << pc7, result >>
                ELSE /\ pc7' = "crashed"
                     /\ result' = Panicked
                     /\ UNCHANGED << am7, emitted7, reads7 >>
  /\ UNCHANGED << supplied7, taken7 >>
  /\ UNCHANGED << varsP, program, phases, call, last_output, vars07,
                  k7, scan_input, yielded, ret7, returned7 >>

\* day7.rs:176-181: run has returned; `*input = amplifier.output.pop_back()?`
\* ends the scan on None, and last() is the last item the scan yielded.
AmpPop7 ==
  /\ call = "day7_amplification_circuit"
  /\ pc7 = "run"
  /\ ~RunLoop7(am7[k7])
  /\ IF am7[k7].output = << >>
       THEN /\ result' = yielded
            /\ pc7' = "returned"
            /\ UNCHANGED << am7, k7, scan_input, yielded >>
       ELSE /\ am7' = [am7 EXCEPT ![k7].output = pop_back(am7[k7].output)]
            /\ scan_input' = back(am7[k7].output)
            /\ yielded' = Some(back(am7[k7].output))
            /\ IF k7 = N - 1
                 THEN /\ result' = Some(back(am7[k7].output))
                      /\ pc7' = "returned"
                      /\ k7' = k7
                 ELSE /\ k7' = k7 + 1
                      /\ pc7' = "push"
                      /\ result' = result
  /\ returned7' = "run"
  /\ taken7' = IF am7[k7].output = << >> THEN taken7
                 ELSE [taken7 EXCEPT ![k7] = Append(taken7[k7], back(am7[k7].output))]
  /\ UNCHANGED << supplied7, reads7 >>
  /\ UNCHANGED << varsP, program, phases, call, overflow_checks, last_output, vars07, ret7, emitted7 >>

\* day7.rs:204-208: run_output has returned Some(output) or None
FeedbackPop7 ==
  /\ call = "day7_feedback_loop"
  /\ pc7 = "run_output"
  /\ ~RunOutputLoop7(am7[k7])
  /\ IF am7[k7].output = << >>
       THEN /\ result' = Some(last_output)
            /\ pc7' = "returned"
            /\ UNCHANGED << am7, k7, last_output >>
       ELSE /\ am7' = [am7 EXCEPT ![k7].output = pop_back(am7[k7].output)]
            /\ last_output' = back(am7[k7].output)
            /\ k7' = (k7 + 1) % N
            /\ pc7' = "push"
            /\ result' = result
  /\ returned7' = "run_output"
  /\ taken7' = IF am7[k7].output = << >> THEN taken7
                 ELSE [taken7 EXCEPT ![k7] = Append(taken7[k7], back(am7[k7].output))]
  /\ UNCHANGED << supplied7, reads7 >>
  /\ UNCHANGED << varsP, program, phases, call, overflow_checks, vars07, scan_input, yielded, ret7,
                  emitted7 >>

\* A caller of the machine: push_input(v)
MachinePushInput(v) ==
  /\ call = "day7_machine"
  /\ pc7 = "idle"
  /\ Len(am7[0].input) < MaxInputs
  /\ am7' = [am7 EXCEPT ![0] = push_input(am7[0], v)]
  /\ supplied7' = [supplied7 EXCEPT ![0] = Append(supplied7[0], v)]
  /\ UNCHANGED << reads7, taken7 >>
  /\ UNCHANGED << varsP, program, phases, call, overflow_checks, last_output, result, vars07,
                  k7, pc7, scan_input, yielded, ret7, returned7, emitted7 >>

\* run() is called
MachineRun ==
  /\ call = "day7_machine"
  /\ pc7 = "idle"
  /\ pc7' = "run"
  /\ UNCHANGED hist7
  /\ UNCHANGED << varsP, program, phases, call, overflow_checks, last_output, result, vars07,
                  am7, k7, scan_input, yielded, ret7, returned7, emitted7 >>

\* run() returns: its loop has ended
MachineRunReturns ==
  /\ call = "day7_machine"
  /\ pc7 = "run"
  /\ ~RunLoop7(am7[0])
  /\ pc7' = "idle"
  /\ returned7' = "run"
  /\ UNCHANGED hist7
  /\ UNCHANGED << varsP, program, phases, call, overflow_checks, last_output, result, vars07,
                  am7, k7, scan_input, yielded, ret7, emitted7 >>

\* run_output() is called
MachineRunOutput ==
  /\ call = "day7_machine"
  /\ pc7 = "idle"
  /\ pc7' = "run_output"
  /\ UNCHANGED hist7
  /\ UNCHANGED << varsP, program, phases, call, overflow_checks, last_output, result, vars07,
                  am7, k7, scan_input, yielded, ret7, returned7, emitted7 >>

\* run_output() returns self.output.pop_back()  (day7.rs:94)
MachineRunOutputReturns ==
  /\ call = "day7_machine"
  /\ pc7 = "run_output"
  /\ ~RunOutputLoop7(am7[0])
  /\ IF am7[0].output = << >>
       THEN /\ ret7' = None
            /\ am7' = am7
       ELSE /\ ret7' = Some(back(am7[0].output))
            /\ am7' = [am7 EXCEPT ![0].output = pop_back(am7[0].output)]
  /\ pc7' = "idle"
  /\ returned7' = "run_output"
  /\ taken7' = IF am7[0].output = << >> THEN taken7
                 ELSE [taken7 EXCEPT ![0] = Append(taken7[0], back(am7[0].output))]
  /\ UNCHANGED << supplied7, reads7 >>
  /\ UNCHANGED << varsP, program, phases, call, overflow_checks, last_output, result, vars07,
                  k7, scan_input, yielded, emitted7 >>

Next7 ==
  \/ Push7
  \/ Step7
  \/ AmpPop7
  \/ FeedbackPop7
  \/ \E v \in 0..MaxPhase : MachinePushInput(v)
  \/ MachineRun
  \/ MachineRunReturns
  \/ MachineRunOutput
  \/ MachineRunOutputReturns

SpecDay7 == Init7 /\ [][Next7]_vars

\* Both parts: a day07.rs call or a day7.rs call.
SpecAll == (Init \/ Init7) /\ [][Next \/ Next7]_vars

(***************************************************************************)
(* One machine of intcode.rs between two channels, as in                   *)
(* tests::test_input_output and day05.rs part1: the holder of the other    *)
(* endpoints sends input, drops the input Sender, receives the output      *)
(* (rx_output.iter()) or drops the output Receiver.  opc is "env", and     *)
(* "eos" once the output iterator has ended; it is "hold" where the holder *)
(* has sent one input, has dropped the input Sender and keeps the output   *)
(* Receiver untouched while the machine runs.                              *)
(***************************************************************************)
\* intcode.rs:94-96, the mode digits of Mode::from
Modes == {0, 1, 2}

\* Opcode fields of the words that are decoded: the table, and 0 and 10.
DecodeOpcodes == {0, 1, 2, 3, 4, 5, 6, 7, 8, 9, 10, 99}

\* Instruction words: every opcode field with every choice of three mode
\* digits, words with one digit that is no mode, words with a fourth
\* digit, and negative words.
DecodeWords ==
  {op + 100 * d1 + 1000 * d2 + 10000 * d3 :
     op \in DecodeOpcodes, d1 \in Modes, d2 \in Modes, d3 \in Modes}
  \cup {op + 3 * 100 * Pow10(k) : op \in Opcodes, k \in 0..2}
  \cup {901, 100001, 100099, -1, -99, -1101}

\* Raw operands of a word at address base: no address, the cell of the
\* Exit that follows the instruction, a data cell, the first address
\* beyond the memory.
DecodeOperands(base) == {-1, base + 4, base + 6, MEMORY}

\* intcode.rs programs: the relative base is set, cell 0 is overwritten
\* with an Exit (a later jump to 0 halts), then the word is decoded.
DecodePrograms ==
  {<< 109, rb, 1101, 0, 99, 0, w, a, b, c, 99, 30, 40, 50, 60 >> :
     rb \in {0, 2, -(MEMORY \div 2)}, w \in DecodeWords,
     a \in DecodeOperands(6), b \in DecodeOperands(6) \ {6 + 6},
     c \in DecodeOperands(6) \ {6 + 4}}

\* day7.rs programs: the words with position-mode digits and the negative
\* words.
DecodePrograms7 ==
  {<< w, a, b, c, 99, 30, 40, 50 >> :
     w \in {op + 100 * d1 : op \in DecodeOpcodes, d1 \in 0..3}
           \cup {1100, 10001, -1, -99},
     a \in DecodeOperands(0), b \in DecodeOperands(0), c \in DecodeOperands(0)}

\* Programs of the i32 machines with a sum or a product that is no i32.
Overflow32Programs ==
  { << 1101, 2147483647, 2, 0, 99 >>,
    << 1102, 65536, 65536, 0, 4, 0, 99 >>,
    << 1102, 46341, 46341, 0, 99 >> }

\* Programs run on IntcodeMachine::new(&program, None, None): those of
\* the calls, and programs that compute before their first Input or Output.
BarePrograms ==
  {Programs[p] : p \in 1..Len(Programs)}
    \cup { << 1, 0, 0, 0, 99 >>, << 1101, 1, 1, 0, 3, 0, 99 >>, << 104, 7, 99 >>,
           << 1101, 1, 1, 0, 4, 0, 99 >> }

InitMachine ==
  /\ Build
  /\ IdleP
  /\ call = "machine"
  /\ phases = << >>
  /\ \/ /\ program \in DecodePrograms
        /\ opc = "hold"
        /\ chan = [k \in 0..1 |->
                     IF k = 0 THEN [q |-> << 7 >>, tx |-> {}, rx |-> "machine"]
                     ELSE [q |-> << >>, tx |-> {"machine"}, rx |-> "caller"]]
     \/ /\ program \in {Programs[p] : p \in 1..Len(Programs)}
        /\ opc = "env"
        /\ chan = [k \in 0..1 |->
                     IF k = 0 THEN [q |-> << >>, tx |-> {"caller"}, rx |-> "machine"]
                     ELSE [q |-> << >>, tx |-> {"machine"}, rx |-> "caller"]]
  /\ it = 0
  /\ jn = 0
  /\ am = [i \in {0} |-> NewMachine(program)]
  /\ st = [i \in {0} |-> IF opc = "env" THEN "created" ELSE "running"]
  /\ exit = [i \in {0} |-> ""]
  /\ handles = {}
  /\ joined = {}
  /\ last_output = 0
  /\ got = FALSE
  /\ result = Pending
  /\ emitted = [i \in {0} |-> << >>]
  /\ reads = [i \in {0} |-> << >>]
  /\ observed = << >>
  /\ Idle7

\* tx_input.send(v)
EnvSend(v) ==
  /\ call = "machine"
  /\ "caller" \in chan[0].tx
  /\ Len(chan[0].q) + Len(reads[0]) < MaxInputs
  /\ chan' = IF SendFails(chan[0]) THEN chan
             ELSE [chan EXCEPT ![0].q = Append(chan[0].q, v)]
  /\ UNCHANGED vars7
  /\ UNCHANGED << varsP, program, phases, call, overflow_checks, opc, it, jn, am, st, exit, handles,
                  joined, last_output, got, result, emitted, reads, observed >>

\* tx_input is dropped
EnvDropSender ==
  /\ call = "machine"
  /\ "caller" \in chan[0].tx
  /\ chan' = [chan EXCEPT ![0].tx = chan[0].tx \ {"caller"}]
  /\ UNCHANGED vars7
  /\ UNCHANGED << varsP, program, phases, call, overflow_checks, opc, it, jn, am, st, exit, handles,
                  joined, last_output, got, result, emitted, reads, observed >>

\* rx_output.iter(): the next value, or the end of the iteration once the
\* queue is empty and every Sender is dropped
EnvRecv ==
  /\ call = "machine"
  /\ opc = "env"
  /\ chan[1].rx = "caller"
  /\ \/ /\ RecvReady(chan[1])
        /\ chan' = [chan EXCEPT ![1].q = Tail(chan[1].q)]
        /\ observed' = Append(observed, Head(chan[1].q))
        /\ opc' = opc
     \/ /\ RecvFails(chan[1])
        /\ opc' = "eos"
        /\ UNCHANGED << chan, observed >>
  /\ UNCHANGED vars7
  /\ UNCHANGED << varsP, program, phases, call, overflow_checks, it, jn, am, st, exit, handles,
                  joined, last_output, got, result, emitted, reads >>

\* rx_output is dropped
EnvDropReceiver ==
  /\ call = "machine"
  /\ opc = "env"
  /\ chan[1].rx = "caller"
  /\ chan' = [chan EXCEPT ![1].rx = "none"]
  /\ UNCHANGED vars7
  /\ UNCHANGED << varsP, program, phases, call, overflow_checks, opc, it, jn, am, st, exit, handles,
                  joined, last_output, got, result, emitted, reads, observed >>

\* The cells a caller patches and the values it writes there.
Patches == { << 1, 4 >>, << 0, 104 >> }

\* im.store(address, v) (intcode.rs:188-190) by the caller that owns the
\* machine: before run() is called, or after it has returned.  A caller that
\* only holds the endpoints has moved the machine into the call of run().
EnvStore(address, v) ==
  /\ call = "machine"
  /\ \/ st[0] = "created"
     \/ st[0] = "finished" /\ exit[0] # "panic" /\ opc # "hold"
  /\ InBounds(address)
  /\ ~Same(load(am[0].mem, address), v)
  /\ am' = [am EXCEPT ![0].mem = store(am[0].mem, address, v)]
  /\ UNCHANGED vars7
  /\ UNCHANGED << varsP, program, phases, call, overflow_checks, opc, it, jn, st, exit, chan,
                  handles, joined, last_output, got, result, emitted, reads, observed >>

\* im.run() is called on the machine made by IntcodeMachine::new
EnvRun ==
  /\ call = "machine"
  /\ st[0] = "created"
  /\ st' = [st EXCEPT ![0] = IF RunLoop(am[0]) THEN "running" ELSE "drop_input"]
  /\ UNCHANGED vars7
  /\ UNCHANGED << varsP, program, phases, call, overflow_checks, opc, it, jn, am, exit, chan,
                  handles, joined, last_output, got, result, emitted, reads, observed >>

Env ==
  \/ \E v \in 0..MaxPhase : EnvSend(v)
  \/ EnvDropSender
  \/ EnvRecv
  \/ EnvDropReceiver
  \/ \E p \in Patches : EnvStore(p[1], p[2])
  \/ EnvRun

\* The step is a store() of the caller, outside every call of run().
CallerStores == \E p \in Patches : EnvStore(p[1], p[2])

\* The step is the caller's store() to cell a of machine i.
CallerStoresTo(i, a) == i = 0 /\ \E p \in Patches : p[1] = a /\ EnvStore(p[1], p[2])

NextMachine == Env \/ \E i \in DOMAIN am : Amplifier(i)

(***************************************************************************)
(* One machine of day7.rs and its caller, also on the programs that hold   *)
(* one instruction word to decode: there the caller has pushed one input   *)
(* and has called run().                                                   *)
(***************************************************************************)
InitMachine7 ==
  /\ Build
  /\ IdleP
  /\ call = "day7_machine"
  /\ phases = << >>
  /\ \/ /\ program \in DecodePrograms7
        /\ am7 = [i \in {0} |-> push_input(NewMachine7(program), 7)]
        /\ supplied7 = [i \in {0} |-> << 7 >>]
        /\ pc7 = "run"
     \/ /\ program \in {Programs[p] : p \in 1..Len(Programs)} \cup Overflow32Programs
        /\ am7 = [i \in {0} |-> NewMachine7(program)]
        /\ supplied7 = [i \in {0} |-> << >>]
        /\ pc7 = "idle"
  /\ k7 = 0
  /\ scan_input = 0
  /\ yielded = None
  /\ ret7 = None
  /\ returned7 = ""
  /\ emitted7 = [i \in {0} |-> << >>]
  /\ reads7 = [i \in {0} |-> << >>]
  /\ taken7 = [i \in {0} |-> << >>]
  /\ last_output = 0
  /\ result = Pending
  /\ Idle07

NextMachine7 ==
  \/ Step7
  \/ \E v \in 0..MaxPhase : MachinePushInput(v)
  \/ MachineRun
  \/ MachineRunReturns
  \/ MachineRunOutput
  \/ MachineRunOutputReturns

(***************************************************************************)
(* One machine of day5.rs: IntcodeMachine::new(program, input), run(), and *)
(* the caller reads im.output (part1, part2, the tests).  The machine is   *)
(* am7[0]; pc7 is "run5" inside run() and "done5" once it has returned.    *)
(***************************************************************************)
Inputs5 == UNION { [1..n -> 0..MaxPhase] : n \in 0..MaxInputs }

InitMachine5 ==
  /\ Build
  /\ IdleP
  /\ call = "day5_machine"
  /\ phases = << >>
  /\ program \in {Programs[p] : p \in 1..Len(Programs)} \cup Overflow32Programs
  /\ \E input \in Inputs5 :
       /\ am7 = [i \in {0} |-> NewMachine5(program, input)]
       /\ supplied7 = [i \in {0} |-> input]
  /\ pc7 = "run5"
  /\ k7 = 0
  /\ scan_input = 0
  /\ yielded = None
  /\ ret7 = None
  /\ returned7 = ""
  /\ emitted7 = [i \in {0} |-> << >>]
  /\ reads7 = [i \in {0} |-> << >>]
  /\ taken7 = [i \in {0} |-> << >>]
  /\ last_output = 0
  /\ result = Pending
  /\ Idle07

\* One turn of the loop of run (day5.rs:144-146)
Step5 ==
  /\ pc7 = "run5"
  /\ RunLoop5(am7[0])
  /\ \E t \in {Tick5(am7[0])} : \E o \in {t.ok /\ Overflows7(Decode5(am7[0]))} :
         \E b \in Settings(o) :
           /\ overflow_checks' = b
           /\ IF t.ok /\ ~(o /\ b = "on")
                THEN /\ am7' = [am7 EXCEPT ![0] = t.m]
                     /\ emitted7' =
                          IF Len(t.m.output) > Len(am7[0].output)
                            THEN [emitted7 EXCEPT ![0] =
                                    Append(emitted7[0], t.m.output[Len(t.m.output)])]
                            ELSE emitted7
                     /\ reads7' =
                          IF Len(t.m.input) < Len(am7[0].input)
                            THEN [reads7 EXCEPT ![0] =
                                    Append(reads7[0], am7[0].input[Len(am7[0].input)])]
                            ELSE reads7
                     /\ UNCHANGED << pc7, result >>
                ELSE /\ pc7' = "crashed"
                     /\ result' = Panicked
                     /\ UNCHANGED << am7, emitted7, reads7 >>
  /\ UNCHANGED << supplied7, taken7 >>
  /\ UNCHANGED << varsP, program, phases, call, last_output, vars07,
                  k7, scan_input, yielded, ret7, returned7 >>

\* run() returns and the caller reads im.output
Run5Returns ==
  /\ pc7 = "run5"
  /\ ~RunLoop5(am7[0])
  /\ pc7' = "done5"
  /\ returned7' = "run"
  /\ taken7' = [taken7 EXCEPT ![0] = am7[0].output]
  /\ UNCHANGED << supplied7, reads7 >>
  /\ UNCHANGED << varsP, program, phases, call, overflow_checks, last_output, result, vars07,
                  am7, k7, scan_input, yielded, ret7, emitted7 >>

NextMachine5 == Step5 \/ Run5Returns

(***************************************************************************)
(* The program loaders: parse_program of intcode.rs and program of         *)
(* day5.rs.  A text is a sequence of characters; "x" stands for any        *)
(* character that is no digit, sign, comma or newline.                     *)
(***************************************************************************)
Chars == {"0", "1", "2", "-", ",", "\n", "\r", "x"}

MaxText == 4

\* Texts with a sign "+", with the other digits, and with numbers at and
\* beyond the ends of i32 and of i64.
LongTexts ==
  { << "+", "1", ",", "-", "3", "4", "," , "+" >>,
    << "5", "6", "7", ",", "8", "9", "\r", "\n", "1" >>,
    << "2", "2", "2", "2", "2", "2", "2", "2", "2", "2" >>,
    << "1", ",", "2", "2", "2", "2", "2", "2", "2", "2", "2", "2", ",", "2" >>,
    << "2", "1", "4", "7", "4", "8", "3", "6", "4", "7" >>,
    << "2", "1", "4", "7", "4", "8", "3", "6", "4", "8" >>,
    << "-", "2", "1", "4", "7", "4", "8", "3", "6", "4", "8" >>,
    << "-", "2", "1", "4", "7", "4", "8", "3", "6", "4", "9" >>,
    << "9", "2", "2", "3", "3", "7", "2", "0", "3", "6", "8", "5", "4", "7", "7", "5",
       "8", "0", "7" >>,
    << "9", "2", "2", "3", "3", "7", "2", "0", "3", "6", "8", "5", "4", "7", "7", "5",
       "8", "0", "8" >>,
    << "-", "9", "2", "2", "3", "3", "7", "2", "0", "3", "6", "8", "5", "4", "7", "7",
       "5", "8", "0", "8" >>,
    << "-", "9", "2", "2", "3", "3", "7", "2", "0", "3", "6", "8", "5", "4", "7", "7",
       "5", "8", "0", "9" >>,
    << "1", ",", "2", "2", "2", "2", "2", "2", "2", "2", "2", "2", "2", "2", "2", "2",
       "2", "2", "2", "2", "2", "2", "2", ",", "2" >> }

Texts == UNION { [1..n -> Chars] : n \in 0..MaxText } \cup LongTexts

DecimalDigits == << "0", "1", "2", "3", "4", "5", "6", "7", "8", "9" >>

IsDigit(c) == \E k \in 1..10 : DecimalDigits[k] = c

DigitValue(c) == (CHOOSE k \in 1..10 : DecimalDigits[k] = c) - 1

\* str::split(sep): the pieces between the separators, empty ones included.
RECURSIVE Split(_, _)
Split(s, sep) ==
  IF \A n \in 1..Len(s) : s[n] # sep THEN << s >>
  ELSE LET n == CHOOSE k \in 1..Len(s) :
                  s[k] = sep /\ \A j \in 1..(k - 1) : s[j] # sep
       IN  << SubSeq(s, 1, n - 1) >> \o Split(SubSeq(s, n + 1, Len(s)), sep)

\* A line that was ended by "\n" loses one "\r" before it.
StripCR(l) ==
  IF l # << >> /\ l[Len(l)] = "\r" THEN SubSeq(l, 1, Len(l) - 1) ELSE l

\* str::lines(): the pieces ended by "\n" or "\r\n", and the rest of the
\* text where it is not empty (a "\r" at its end is kept).
Lines(s) ==
  LET parts == Split(s, "\n")
      ended == [k \in 1..(Len(parts) - 1) |-> StripCR(parts[k])]
  IN  IF parts[Len(parts)] = << >> THEN ended
      ELSE ended \o << parts[Len(parts)] >>

\* The number that at most four digits write.
RECURSIVE SmallValue(_)
SmallValue(ds) ==
  IF ds = << >> THEN 0
  ELSE 10 * SmallValue(SubSeq(ds, 1, Len(ds) - 1)) + DigitValue(ds[Len(ds)])

\* The number the digits write, exactly: every four digits from the right
\* are one digit to the base 10000.
DigitsValue(ds) ==
  LET n == (Len(ds) + 3) \div 4
      lo(k) == IF Len(ds) - 4 * k + 1 < 1 THEN 1 ELSE Len(ds) - 4 * k + 1
  IN  FromMag(FALSE, [k \in 1..n |-> SmallValue(SubSeq(ds, lo(k), Len(ds) - 4 * (k - 1)))])

\* str::parse::<i64>() (n = 4) / <i32>() (n = 2): an optional sign and at
\* least one digit, and the number is one of the type (16 n bits).
ParseInt(tok, n) ==
  LET signed == tok # << >> /\ tok[1] \in {"-", "+"}
      ds     == IF signed THEN Tail(tok) ELSE tok
      val    == IF signed /\ tok[1] = "-" THEN FromMag(TRUE, Mag(DigitsValue(ds)))
                ELSE DigitsValue(ds)
  IN  IF ds = << >> \/ \E k \in 1..Len(ds) : ~IsDigit(ds[k])
        THEN [ok |-> FALSE, val |-> 0]
      ELSE IF ~Fits(val, n) THEN [ok |-> FALSE, val |-> 0]
      ELSE [ok |-> TRUE, val |-> val]

\* .filter_map(|s| s.parse().ok()).collect()
RECURSIVE FilterParse(_, _)
FilterParse(toks, n) ==
  IF toks = << >> THEN << >>
  ELSE LET r == ParseInt(Head(toks), n)
       IN  (IF r.ok THEN << r.val >> ELSE << >>) \o FilterParse(Tail(toks), n)

\* intcode.rs parse_program: the first line as a Vec<i64>, or None when
\* there is none.
parse_program(s) ==
  IF Lines(s) = << >> THEN [some |-> FALSE, v |-> << >>]
  ELSE [some |-> TRUE, v |-> FilterParse(Split(Lines(s)[1], ","), 4)]

\* day5.rs program: the whole text split at the commas, as a Vec<i32>.
program5(s) == FilterParse(Split(s, ","), 2)

InitParse ==
  /\ Build
  /\ call = "loader"
  /\ text \in Texts
  /\ parsed = NotParsed
  /\ program = << >>
  /\ phases = << >>
  /\ last_output = 0
  /\ result = Pending
  /\ Idle07
  /\ Idle7

\* parse_program(text) is called (day05.rs, day07.rs, day09.rs generators)
ParseProgram ==
  /\ call = "loader"
  /\ parsed = NotParsed
  /\ parsed' = [loader |-> "parse_program", some |-> parse_program(text).some,
                v |-> parse_program(text).v]
  /\ UNCHANGED << text, program, phases, call, overflow_checks, last_output, result, vars07, vars7 >>

\* program(text) of day5.rs is called
Program5 ==
  /\ call = "loader"
  /\ parsed = NotParsed
  /\ parsed' = [loader |-> "day5_program", some |-> TRUE, v |-> program5(text)]
  /\ UNCHANGED << text, program, phases, call, overflow_checks, last_output, result, vars07, vars7 >>

NextParse == ParseProgram \/ Program5

SpecParse == InitParse /\ [][NextParse]_vars

(***************************************************************************)
(* The programs of the tests of intcode.rs, each run by one machine whose  *)
(* output nobody reads before run() is over.  A program that takes input   *)
(* finds one value queued; the test holds the Sender of the input while    *)
(* run() executes, so an Input that finds the queue empty blocks.          *)
(***************************************************************************)
Quine == << 109, 1, 204, -1, 1001, 100, 1, 100, 1008, 100, 16, 101, 1006, 101, 0, 99 >>

BigMultiply == << 1102, 34915192, 34915192, 7, 4, 7, 99, 0 >>

BigAdd == << 1101, 2000000000, 2000000000, 7, 4, 7, 99, 0 >>

\* Programs without Input and Output.
IOFreePrograms ==
  { << 1, 0, 0, 0, 99 >>,
    << 2, 3, 0, 3, 99 >>,
    << 2, 4, 4, 5, 99, 0 >>,
    << 1, 1, 1, 4, 99, 5, 6, 0, 99 >>,
    << 1, 9, 10, 3, 2, 3, 11, 0, 99, 30, 40, 50 >>,
    << 1002, 4, 3, 4, 33 >>,
    << 1101, 100, -1, 4, 0 >>,
    << 1105, 1, 0 >>,
    << 1106, 0, 0 >>,
    << 1001, 8, -1, 8, 1005, 8, 0, 99, 3 >>,
    << 21101, 5, 6, 1, 99 >> }

IOPrograms ==
  { Quine,
    << 3, 9, 8, 9, 10, 9, 4, 9, 99, -1, 8 >>,
    << 3, 9, 7, 9, 10, 9, 4, 9, 99, -1, 8 >>,
    << 3, 3, 1108, -1, 8, 3, 4, 3, 99 >>,
    << 3, 3, 1107, -1, 8, 3, 4, 3, 99 >>,
    << 3, 12, 6, 12, 15, 1, 13, 14, 13, 4, 13, 99, -1, 0, 1, 9 >>,
    << 3, 3, 1105, -1, 9, 1101, 0, 0, 12, 4, 12, 99, 1 >> }

TestPrograms == IOFreePrograms \cup IOPrograms

\* The largest i64, 9223372036854775807.
MaxI64 == Wide(FALSE, << 5807, 5477, 368, 3372, 922 >>)

\* Programs whose results do not fit 32 bits: the two of the tests, programs
\* that go on computing, jumping and comparing with such a result, and
\* programs whose second product or whose relative base does not fit 64
\* bits either.
WidePrograms ==
  { BigMultiply, BigAdd,
    << 1102, 65536, 65536, 20, 1001, 20, 1, 20, 99 >>,
    << 1102, 65536, 65536, 20, 1005, 20, 8, 99, 99 >>,
    << 1102, 65536, 65536, 20, 1007, 20, 5, 21, 1008, 20, 5, 22, 99 >>,
    << 1102, 2147483647, 2147483647, 9, 2, 9, 9, 9, 99, 0 >>,
    << 109, MaxI64, 109, 1, 99 >> }

TestInputs == {0, 1, 8}

InitRun(programs) ==
  /\ Build
  /\ IdleP
  /\ call = "test"
  /\ phases = << >>
  /\ program \in programs
  /\ opc = "hold"
  /\ \E v \in TestInputs :
       chan = [k \in 0..1 |->
                 IF k = 0 THEN [q |-> << v >>, tx |-> {"caller"}, rx |-> "machine"]
                 ELSE [q |-> << >>, tx |-> {"machine"}, rx |-> "caller"]]
  /\ it = 0
  /\ jn = 0
  /\ am = [i \in {0} |-> NewMachine(program)]
  /\ st = [i \in {0} |-> "running"]
  /\ exit = [i \in {0} |-> ""]
  /\ handles = {}
  /\ joined = {}
  /\ last_output = 0
  /\ got = FALSE
  /\ result = Pending
  /\ emitted = [i \in {0} |-> << >>]
  /\ reads = [i \in {0} |-> << >>]
  /\ observed = << >>
  /\ Idle7

InitTests == InitRun(TestPrograms)

InitWide == InitRun(WidePrograms)

NextTests == \E i \in DOMAIN am : Amplifier(i)

SpecTests == (InitTests \/ InitWide) /\ [][NextTests]_vars

\* The thread that runs the machine is scheduled as long as it can step.
SpecTestsFair == InitTests /\ [][NextTests]_vars /\ WF_vars(NextTests)

(***************************************************************************)
(* One machine of intcode.rs on the programs that set the relative base to *)
(* 1 and then execute one instruction word whose operands are given in     *)
(* every combination of modes: an operand reads a data cell, the Exit that *)
(* follows the instruction, or the cell of another operand of the same     *)
(* instruction.                                                            *)
(***************************************************************************)
\* Address of the instruction word of a mode program.
ModeWordAt == 2

ModeWords ==
  {op + 100 * d1 + 1000 * d2 + 10000 * d3 :
     op \in Opcodes, d1 \in Modes, d2 \in Modes, d3 \in Modes}

ModePrograms ==
  {<< 109, 1, w, a, b, c, 99, 30, 40, 50, 0, 60 >> :
     w \in ModeWords, a \in {3, 6, 8, 10}, b \in {3, 6, 8}, c \in {3, 7}}

\* tx_input.send(8) before run()
InitModes == InitRun(ModePrograms) /\ chan[0].q = << 8 >>

SpecModes == InitModes /\ [][NextTests]_vars

(***************************************************************************)
(* The calls of day07.rs on programs that emit between two Inputs: a       *)
(* machine can emit after reading one value, and the machine after it      *)
(* reads two or three values.                                              *)
(*  1  3,0,4,0,3,1,4,1,99      echoes its first input, then its second     *)
(*  2  3,0,3,1,4,1,3,2,4,2,99  reads phase and signal, echoes the signal,  *)
(*                             then echoes one more input                  *)
(***************************************************************************)
LinkPrograms ==
  { << 3, 0, 4, 0, 3, 1, 4, 1, 99 >>,
    << 3, 0, 3, 1, 4, 1, 3, 2, 4, 2, 99 >> }

InitLinks ==
  /\ Build
  /\ IdleP
  /\ program \in LinkPrograms
  /\ phases \in PhaseLists
  /\ call \in {"amplification_circuit", "feedback_loop"}
  /\ opc = "new"
  /\ it = 0
  /\ jn = 0
  /\ am = [i \in Amps |-> NewMachine(program)]
  /\ st = [i \in Amps |-> "unspawned"]
  /\ exit = [i \in Amps |-> ""]
  /\ chan = [k \in 0..N |-> NoChannel]
  /\ handles = {}
  /\ joined = {}
  /\ last_output = 0
  /\ got = FALSE
  /\ result = Pending
  /\ emitted = [i \in Amps |-> << >>]
  /\ reads = [i \in Amps |-> << >>]
  /\ observed = << >>
  /\ Idle7

SpecLinks == InitLinks /\ [][Next]_vars

\* One machine at a time: of intcode.rs, of day7.rs or of day5.rs.
SpecMachine ==
  (InitMachine \/ InitMachine7 \/ InitMachine5)
    /\ [][NextMachine \/ NextMachine7 \/ NextMachine5]_vars

\* IntcodeMachine::new(&program, None, None) and run(), as in
\* tests::test_intcode_machine.
InitBare ==
  /\ Build
  /\ IdleP
  /\ call = "machine"
  /\ phases = << >>
  /\ program \in BarePrograms
  /\ opc = "env"
  /\ chan = [k \in 0..1 |-> Absent]
  /\ it = 0
  /\ jn = 0
  /\ am = [i \in {0} |-> NewMachine(program)]
  /\ st = [i \in {0} |-> "created"]
  /\ exit = [i \in {0} |-> ""]
  /\ handles = {}
  /\ joined = {}
  /\ last_output = 0
  /\ got = FALSE
  /\ result = Pending
  /\ emitted = [i \in {0} |-> << >>]
  /\ reads = [i \in {0} |-> << >>]
  /\ observed = << >>
  /\ Idle7

\* One machine at a time, the machines created without channels included.
SpecBare ==
  (InitMachine \/ InitBare \/ InitMachine7 \/ InitMachine5)
    /\ [][NextMachine \/ NextMachine7 \/ NextMachine5]_vars

(***************************************************************************)
(* Properties.                                                             *)
(***************************************************************************)
\* Thread i is inside recv(): its next instruction is an Input that decodes,
\* the queue is empty and a Sender of the channel is still alive.
Blocked(i) ==
  /\ st[i] = "running"
  /\ Decode(am[i]).ok
  /\ Decode(am[i]).opcode = 3
  /\ chan[i].q = << >>
  /\ chan[i].tx # {}

\* The calling thread is inside recv_output() or join() and cannot go on.
CallerBlocked ==
  \/ opc = "recv_output" /\ chan[N].q = << >> /\ chan[N].tx # {}
  \/ opc = "join" /\ jn < N /\ st[jn] # "finished"

\* The call has not returned and no thread can take a step, now or ever:
\* every thread has finished or is blocked in recv(), and so is the caller.
Hung ==
  /\ CallerBlocked
  /\ \A i \in Amps : st[i] = "finished" \/ Blocked(i)

Last(seq) == seq[Len(seq)]

Range(seq) == {seq[x] : x \in DOMAIN seq}

\* run() of thread i has returned (the thread did not panic).
RunReturned(i) == st[i] = "finished" /\ exit[i] # "panic"

\* C1: when the last machine of a feedback ring halts right after its first
\* output, feedback_loop does not hang: the call is never left with the
\* caller and every unfinished thread blocked for good.
C1_ShutdownSafety ==
  ( /\ call = "feedback_loop"
    /\ N > 0
    /\ exit[N - 1] = "halted"
    /\ Len(emitted[N - 1]) = 1 )
  => ~Hung

\* C2: a machine blocked on an Input whose producing machine has finished,
\* with the link between them empty, does not stay blocked forever.
C2_ClosedSignalPropagates ==
  \A i \in Amps :
    (i > 0 /\ st[i - 1] = "finished" /\ Blocked(i)) => ~Hung

\* C3: once the circuit is built every channel has at most one live
\* producer endpoint, and the link into machine i (i > 0) is written only
\* by machine i-1.
C3_SingleProducer ==
  opc \in {"send_input", "recv_output", "send_loop", "join"}
  => \A k \in 0..N :
       /\ Cardinality(chan[k].tx) <= 1
       /\ k > 0 => chan[k].tx \subseteq {"machine"}

\* C4: a call of the linear pipeline in which no machine emits anything
\* terminates and yields no result; it neither hangs nor panics.
C4_NoResultTerminates ==
  /\ ( call = "amplification_circuit" /\ \A i \in Amps : emitted[i] = << >> )
     => ~Hung
  /\ ( call = "amplification_circuit" /\ opc = "returned"
       /\ \A i \in Amps : emitted[i] = << >> )
     => result = None
  /\ ( call = "day7_amplification_circuit"
       /\ \A i \in DOMAIN emitted7 : emitted7[i] = << >> )
     => result \in {Pending, None}

\* C5: the value the linear pipeline reports for a phase list is a value
\* emitted by machine N-1, and it is none when machine N-1 emits nothing.
C5_LinearResult ==
  /\ ( call = "amplification_circuit" /\ opc = "returned" )
     => IF N = 0 \/ emitted[N - 1] = << >>
          THEN result = None
          ELSE result.state = "some" => result.v \in Range(emitted[N - 1])
  /\ ( call = "day7_amplification_circuit" /\ pc7 = "returned" )
     => IF emitted7[N - 1] = << >>
          THEN result = None
          ELSE result.state = "some" /\ result.v \in Range(emitted7[N - 1])

\* day7.rs:201-208: when the loop has ended on machine k7, last_output was
\* taken from the machine before it in the ring.
Source7 == (k7 + N - 1) % N

\* C6: when the ring has halted, the value the feedback loop returns is the
\* last value machine N-1 emitted, never a value of another machine and
\* never an earlier output of machine N-1.  day07.rs: every machine
\* executed Exit and machine N-1 emitted.  day7.rs: the loop has ended and
\* the value was taken from some machine's output.
C6_FeedbackResult ==
  /\ ( /\ call = "feedback_loop"
       /\ opc = "returned"
       /\ N > 0
       /\ \A i \in Amps : st[i] = "finished" /\ exit[i] = "halted"
       /\ emitted[N - 1] # << >> )
     => (result.state = "some" => result.v = Last(emitted[N - 1]))
  /\ ( /\ call = "day7_feedback_loop"
       /\ pc7 = "returned"
       /\ emitted7[Source7] # << >> )
     => /\ Source7 = N - 1
        /\ result = Some(Last(emitted7[N - 1]))

\* C7: the first value every machine reads is its own phase value.
C7_PhaseFirst ==
  \A i \in DOMAIN reads :
    reads[i] # << >> => reads[i][1] = phases[i + 1]

\* C8: whenever amplification_circuit or feedback_loop has returned, every
\* thread that was spawned has finished and has been joined.
C8_JoinOnReturn ==
  opc = "returned"
  => \A i \in Amps : st[i] # "unspawned" => (st[i] = "finished" /\ i \in joined)

\* The steps taken inside a call of run() or run_output() of day7.rs.
InRun7 ==
  \/ Step7
  \/ MachineRunReturns
  \/ MachineRunOutputReturns
  \/ FeedbackPop7

\* The steps of thread i, which is inside run() of intcode.rs.
InRun(i) ==
  \/ TickCompute(i)
  \/ TickInput(i)
  \/ TickOutput(i)
  \/ DropInput(i)
  \/ DropOutput(i)

\* The halted flag is false at creation, is set only by opcode 99 and is
\* never cleared.
HaltedFlagStep ==
  /\ \A i \in DOMAIN am :
       /\ am[i].halted => am'[i].halted
       /\ (~am[i].halted /\ am'[i].halted)
            => RemT(load(am[i].mem, am[i].pc), 100) = 99
  /\ \A i \in DOMAIN am7 :
       /\ am7[i].halted => am7'[i].halted
       /\ (~am7[i].halted /\ am7'[i].halted)
            => RemT(am7[i].mem[am7[i].pc], 100) = 99

\* C9 (as claimed): the halted flag is false at creation, is set only by
\* opcode 99, never reverts, and once it is set a call of run() or
\* run_output() leaves pc, memory, relative base and the I/O queues as they
\* were.
C9_HaltedFreezesAll ==
  /\ \A i \in DOMAIN am : ~am[i].halted
  /\ \A i \in DOMAIN am7 : ~am7[i].halted
  /\ [][ /\ HaltedFlagStep
         /\ \A i \in DOMAIN am :
              am[i].halted =>
                /\ am'[i] = am[i]
                /\ InRun(i) => /\ chan'[i].q = chan[i].q
                               /\ chan'[i + 1].q = chan[i + 1].q
         /\ \A i \in DOMAIN am7 :
              (am7[i].halted /\ InRun7) => am7'[i] = am7[i] ]_vars

\* C9 (amended): the halted flag is false at creation, is set only by
\* opcode 99, never reverts, and once it is set a call of run() or
\* run_output() executes no instruction: pc, memory, relative base and the
\* input queue stay as they were, and the output queue changes only by
\* run_output() taking the oldest buffered value from it.
C9_HaltedTerminal ==
  /\ \A i \in DOMAIN am : ~am[i].halted
  /\ \A i \in DOMAIN am7 : ~am7[i].halted
  /\ [][ /\ HaltedFlagStep
         /\ \A i \in DOMAIN am :
              am[i].halted =>
                /\ am'[i] = am[i]
                /\ InRun(i) => /\ chan'[i].q = chan[i].q
                               /\ chan'[i + 1].q = chan[i + 1].q
         /\ \A i \in DOMAIN am7 :
              (am7[i].halted /\ InRun7) =>
                /\ am7'[i].pc = am7[i].pc
                /\ am7'[i].mem = am7[i].mem
                /\ am7'[i].input = am7[i].input
                /\ \/ am7'[i].output = am7[i].output
                   \/ /\ pc7 = "run_output"
                      /\ am7[i].output # << >>
                      /\ am7'[i].output = pop_back(am7[i].output) ]_vars

\* C9 witness: run_output() is running on a machine that had halted with a
\* value still buffered in its output.
C9_Witness ==
  /\ call = "day7_machine"
  /\ pc7 = "run_output"
  /\ am7[0].halted
  /\ am7[0].output # << >>

\* run() of day7.rs has been called on machine j and has returned.
RunReturned7(j) ==
  /\ returned7 = "run"
  /\ \/ j < k7
     \/ j = k7 /\ pc7 \in {"idle", "returned"}

\* C10 (as claimed): whenever run() has returned, the machine is halted.
C10_RunEndsHalted ==
  /\ \A i \in DOMAIN st : RunReturned(i) => am[i].halted
  /\ \A j \in DOMAIN am7 : RunReturned7(j) => am7[j].halted

\* C10 (amended): whenever run() has returned, the machine is halted, or
\* (intcode.rs only) its last instruction was an Input whose channel was
\* empty with every Sender dropped, or an Output whose Receiver was dropped.
C10_RunEndsHaltedOrClosed ==
  /\ \A i \in DOMAIN st :
       RunReturned(i) =>
         \/ am[i].halted /\ exit[i] = "halted"
         \/ /\ ~am[i].halted
            /\ RemT(load(am[i].mem, am[i].pc - 2), 100) = 3
            /\ chan[i].q = << >>
            /\ chan[i].tx = {}
         \/ /\ ~am[i].halted
            /\ RemT(load(am[i].mem, am[i].pc - 2), 100) = 4
            /\ chan[i + 1].rx = "none"
  /\ \A j \in DOMAIN am7 : RunReturned7(j) => am7[j].halted

\* C10 witness: run() has returned on a machine that is not halted.
C10_Witness ==
  \E i \in DOMAIN st : RunReturned(i) /\ ~am[i].halted


(***************************************************************************)
(* The instruction word and its operands (one machine of intcode.rs)       *)
(***************************************************************************)
\* The decimal digit of w at position p (position 0 is the last digit).
Digit(w, p) == (w \div Pow10(p)) % 10

\* What an operand with raw value v resolves to under a mode digit.
Resolved(m, mode, perm, v) ==
  CASE perm = "Read" /\ mode = 0  -> load(m.mem, v)
    [] perm = "Read" /\ mode = 1  -> v
    [] perm = "Read" /\ mode = 2  -> load(m.mem, m.relative_base + v)
    [] perm = "Write" /\ mode = 2 -> m.relative_base + v
    [] OTHER                      -> v

\* The machine is about to decode the word at pc.
AtWord(i) == i \in DOMAIN am /\ st[i] = "running" /\ InBounds(am[i].pc)

WordAt(i) == load(am[i].mem, am[i].pc)

\* C11: the opcode of the word w at pc is its low two decimal digits, and
\* operand k (counted from 0) is taken under the decimal digit of w at
\* position 2 + k, an absent digit being position mode: whenever the word
\* decodes, the decoded opcode is w % 100, it has the operands of that
\* opcode, and each operand is its raw value resolved under that digit.
C11_WordDecoding ==
  \A i \in DOMAIN am :
    (AtWord(i) /\ WordAt(i) >= 0 /\ Decode(am[i]).ok) =>
      LET d     == Decode(am[i])
          w     == WordAt(i)
          perms == Perms(w % 100)
      IN  /\ d.opcode = w % 100
          /\ d.opcode \in Opcodes
          /\ Len(d.r) = Len(perms)
          /\ d.pc = am[i].pc + 1 + Len(perms)
          /\ \A k \in 1..Len(perms) :
               /\ ModeOf(w, k) = Digit(w, k + 1)
               /\ d.r[k] = Resolved(am[i], Digit(w, k + 1), perms[k],
                                    load(am[i].mem, am[i].pc + k))

\* C11 witness: the word 1002 with operands 12, 10, 12 has run as Multiply
\* with modes position, immediate, position: cell 12 went from 40 to 400.
C11_Witness ==
  /\ call = "machine"
  /\ Len(program) >= 10
  /\ program[7] = 1002 /\ program[8] = 12 /\ program[9] = 10 /\ program[10] = 12
  /\ am[0].pc = 10
  /\ load(am[0].mem, 12) = 400


\* The opcode table of the language.
Table == (1..9) \cup {99}

\* A word whose opcode is not in the table; zero and negative words have none.
Unknown(w) == w <= 0 \/ (w % 100) \notin Table

\* The machine of day7.rs is about to decode the word at pc.
AtWord7 ==
  /\ k7 \in DOMAIN am7
  /\ \/ pc7 = "run" /\ RunLoop7(am7[k7])
     \/ pc7 = "run_output" /\ RunOutputLoop7(am7[k7])
  /\ am7[k7].pc \in DOMAIN am7[k7].mem

\* C12: a word at pc whose opcode is not in {1,...,9,99} (zero and negative
\* words included) does not decode, and the only step the machine takes
\* from there is the fault: memory, relative base, the input consumed and
\* the output emitted are as before, and run ends by a panic, in intcode.rs
\* and in day7.rs.
C12_UnknownOpcodeFatal ==
  [][ /\ \A i \in DOMAIN am :
           (AtWord(i) /\ Unknown(WordAt(i))) =>
             /\ ~Decode(am[i]).ok
             /\ am'[i].mem = am[i].mem
             /\ am'[i].relative_base = am[i].relative_base
             /\ ~am'[i].halted
             /\ reads'[i] = reads[i]
             /\ emitted'[i] = emitted[i]
             /\ st'[i] \in {"running", "drop_input"}
             /\ st'[i] = "drop_input" => exit'[i] = "panic"
      /\ (AtWord7 /\ Unknown(am7[k7].mem[am7[k7].pc])) =>
             /\ ~Tick7(am7[k7]).ok
             /\ am7' = am7
             /\ reads7' = reads7
             /\ emitted7' = emitted7
             /\ pc7' = "crashed"
    ]_vars

\* C12 witness: the machine met the word -99 at address 6 and its run ended
\* by a panic, with nothing read and nothing emitted.
C12_Witness ==
  /\ call = "machine"
  /\ Len(program) >= 7 /\ program[7] = -99
  /\ am[0].pc = 6
  /\ exit[0] = "panic"
  /\ reads[0] = << >> /\ emitted[0] = << >>


\* A word of the table that carries a mode digit outside {0, 1, 2} in one
\* of its three mode positions.
Malformed(w) ==
  w > 0 /\ (w % 100) \in Table /\ \E p \in 2..4 : Digit(w, p) \notin Modes

\* C13: a word that carries a parameter-mode digit outside {0,1,2} does not
\* decode, whatever the arity of its opcode, and the only step the machine
\* takes from there is the fault: memory, relative base, input and output
\* are as before and run ends by a panic.
C13_MalformedModeFatal ==
  [][ \A i \in DOMAIN am :
        (AtWord(i) /\ Malformed(WordAt(i))) =>
          /\ ~Decode(am[i]).ok
          /\ am'[i].mem = am[i].mem
          /\ am'[i].relative_base = am[i].relative_base
          /\ ~am'[i].halted
          /\ reads'[i] = reads[i]
          /\ emitted'[i] = emitted[i]
          /\ st'[i] \in {"running", "drop_input"}
          /\ st'[i] = "drop_input" => exit'[i] = "panic"
    ]_vars


\* A storing instruction (Add, Multiply, Input, LessThan, Equals) whose
\* destination operand has mode digit 1.
ImmediateWrite(w) ==
  /\ w > 0
  /\ (w % 100) \in {1, 2, 3, 7, 8}
  /\ LET perms == Perms(w % 100)
     IN  Digit(w, Len(perms) + 1) = 1

\* C14: an Add, Multiply, Input, LessThan or Equals word whose destination
\* operand has mode digit 1 does not decode; the machine faults and the
\* memory is as before (no store).
C14_ImmediateWriteRejected ==
  [][ \A i \in DOMAIN am :
        (AtWord(i) /\ ImmediateWrite(WordAt(i))) =>
          /\ ~Decode(am[i]).ok
          /\ am'[i].mem = am[i].mem
          /\ st'[i] \in {"running", "drop_input"}
          /\ st'[i] = "drop_input" => exit'[i] = "panic"
    ]_vars


\* Operand k (1, 2, 3) of the word at pc of machine i: its raw value
\* resolved under its mode digit.
Op(i, k) ==
  Resolved(am[i], Digit(WordAt(i), k + 1), Perms(WordAt(i) % 100)[k],
           load(am[i].mem, am[i].pc + k))

\* C15: a read operand with raw value v resolves to mem[v] in position
\* mode, to v in immediate mode and to mem[b + v] in relative mode (b the
\* relative base); a write operand resolves to the address v in position
\* mode and b + v in relative mode.  Every instruction that executes acts
\* on its operands so resolved: the store goes to the resolved address with
\* the value computed from the resolved reads, Output emits the resolved
\* read, a jump goes to it, and opcode 9 adds it to the relative base.
C15_OperandResolution ==
  [][ \A i \in DOMAIN am :
        (/\ AtWord(i) /\ WordAt(i) >= 0 /\ ~ImmediateWrite(WordAt(i))
         /\ Decode(am[i]).ok
         /\ am'[i] # am[i]) =>
          LET op  == WordAt(i) % 100
              m   == am[i]
              m2  == am'[i]
          IN  /\ op = 1 => m2.mem = store(m.mem, Op(i, 3), Op(i, 1) + Op(i, 2))
              /\ op = 2 => m2.mem = store(m.mem, Op(i, 3), Op(i, 1) * Op(i, 2))
              /\ op = 3 =>
                   IF reads'[i] # reads[i]
                     THEN m2.mem = store(m.mem, Op(i, 1), Last(reads'[i]))
                     ELSE m2.mem = m.mem
              /\ (op = 4 /\ emitted'[i] # emitted[i]) =>
                   emitted'[i] = Append(emitted[i], Op(i, 1))
              /\ op = 5 => m2.pc = IF Op(i, 1) # 0 THEN Op(i, 2) ELSE m.pc + 3
              /\ op = 6 => m2.pc = IF Op(i, 1) = 0 THEN Op(i, 2) ELSE m.pc + 3
              /\ op = 7 =>
                   m2.mem = store(m.mem, Op(i, 3), IF Op(i, 1) < Op(i, 2) THEN 1 ELSE 0)
              /\ op = 8 =>
                   m2.mem = store(m.mem, Op(i, 3), IF Op(i, 1) = Op(i, 2) THEN 1 ELSE 0)
              /\ op = 9 => m2.relative_base = m.relative_base + Op(i, 1)
              /\ op # 9 => m2.relative_base = m.relative_base
    ]_vars

\* C15 witness: with relative base 2 the word 22201 with operands 10, 10, 12
\* has added cell 12 to itself and stored the sum, 80, in cell 14.
C15_Witness ==
  /\ call = "machine"
  /\ Len(program) >= 10
  /\ program[2] = 2
  /\ program[7] = 22201 /\ program[8] = 10 /\ program[9] = 10 /\ program[10] = 12
  /\ am[0].relative_base = 2
  /\ am[0].pc = 10
  /\ load(am[0].mem, 14) = 80


(***************************************************************************)
(* Memory bounds (intcode.rs)                                              *)
(***************************************************************************)
\* A word of the table whose operands all have a mode digit in {0, 1, 2}.
WellFormed(w) ==
  /\ w > 0 /\ (w % 100) \in Table
  /\ \A k \in 1..Len(Perms(w % 100)) : Digit(w, k + 1) \in Modes

\* The addresses the instruction at pc of machine i uses: the fetches of
\* the word and of its operands, the loads of its read operands in position
\* and relative mode, and the target of its store.
Addresses(i) ==
  LET w     == WordAt(i)
      perms == Perms(w % 100)
      raw(k) == load(am[i].mem, am[i].pc + k)
  IN  {am[i].pc + k : k \in 0..Len(perms)}
        \cup {raw(k) : k \in {j \in 1..Len(perms) :
                                perms[j] = "Read" /\ Digit(w, j + 1) = 0}}
        \cup {am[i].relative_base + raw(k) :
                k \in {j \in 1..Len(perms) :
                         perms[j] = "Read" /\ Digit(w, j + 1) = 2}}
        \cup {Op(i, k) : k \in {j \in 1..Len(perms) : perms[j] = "Write"}}

\* The instruction at pc needs an address outside [0, MEMORY).
OutOfBounds(i) ==
  \/ ~InBounds(am[i].pc)
  \/ WellFormed(WordAt(i)) /\ \E a \in Addresses(i) : a < 0 \/ a >= MEMORY

\* C16: the memory is never extended (its cells stay within [0, MEMORY)),
\* and a machine whose next instruction needs an address that is negative
\* or at/above MEMORY, for the fetch (a jump target included), an operand
\* read or the store, takes no step but the fault: nothing is stored, the
\* relative base is as before, and run ends by a panic.  (An Input whose
\* only address out of bounds is its target never reaches the store when
\* its channel is closed and empty; run then ends by the receive error.)
C16_MemoryBounds ==
  /\ \A i \in DOMAIN am : DOMAIN am[i].mem \subseteq 0..(MEMORY - 1)
  /\ [][ \A i \in DOMAIN am :
           /\ DOMAIN am'[i].mem \subseteq 0..(MEMORY - 1)
           /\ (st[i] = "running" /\ OutOfBounds(i)) =>
                /\ am'[i].mem = am[i].mem
                /\ am'[i].relative_base = am[i].relative_base
                /\ ~am'[i].halted
                /\ emitted'[i] = emitted[i]
                /\ st'[i] \in {"running", "drop_input"}
                /\ st'[i] = "drop_input" =>
                     \/ exit'[i] = "panic"
                     \/ /\ exit'[i] = "recv_err"
                        /\ InBounds(am[i].pc) /\ WordAt(i) % 100 = 3
       ]_vars

\* C16 witness: the Add 1101 with target 4096 faulted: run ended by a
\* panic at address 6 and the memory holds the cells it held.
C16_Witness ==
  /\ call = "machine"
  /\ Len(program) >= 10
  /\ program[7] = 1101 /\ program[10] = MEMORY
  /\ am[0].pc = 6
  /\ exit[0] = "panic"
  /\ DOMAIN am[0].mem = 0..(Len(program) - 1)


(***************************************************************************)
(* One machine of intcode.rs and the caller that drains its output         *)
(***************************************************************************)
\* C17: once run() is over the machine holds neither of its endpoints: the
\* Receiver of its input and its Sender of the output are dropped.  A
\* caller that is the only consumer of the output has received a prefix of
\* the emitted values in emission order, the rest being queued; once run()
\* is over its receive never blocks (a value is queued or the channel is
\* closed), and when it meets the end of the stream it has received exactly
\* the values emitted.
C17_OutputClosesAfterRun ==
  call = "machine" =>
    /\ st[0] = "finished" =>
         /\ chan[0].rx = "none"
         /\ "machine" \notin chan[1].tx
         /\ chan[1].tx = {}
    /\ chan[1].rx = "caller" => observed \o chan[1].q = emitted[0]
    /\ (st[0] = "finished" /\ chan[1].rx = "caller") =>
         RecvReady(chan[1]) \/ RecvFails(chan[1])
    /\ opc = "eos" =>
         /\ st[0] = "finished"
         /\ observed = emitted[0]

\* C17 witness: the program 3,0,4,0,99 was sent the value 1, halted, and
\* the caller received exactly [1] and then the end of the stream.
C17_Witness ==
  /\ call = "machine"
  /\ program = << 3, 0, 4, 0, 99 >>
  /\ reads[0] = << 1 >>
  /\ exit[0] = "halted"
  /\ opc = "eos"
  /\ observed = << 1 >>


(***************************************************************************)
(* The input and output buffers of the in-process machines (day7.rs,       *)
(* day5.rs)                                                                *)
(***************************************************************************)
IsPrefix(s, t) == Len(s) <= Len(t) /\ s = SubSeq(t, 1, Len(s))

\* C18: in the in-process machines the values the Input instructions have
\* read are, in order, the first of the values supplied, and the values
\* the caller has read back are, in order, the first of the values emitted:
\* nothing is reordered, lost or duplicated.
C18_FifoBuffers ==
  \A j \in DOMAIN am7 :
    /\ IsPrefix(reads7[j], supplied7[j])
    /\ IsPrefix(taken7[j], emitted7[j])

\* The same for the machines of day7.rs alone.
FifoBuffers7 == call = "day5_machine" \/ C18_FifoBuffers


(***************************************************************************)
(* Channel errors inside run() (intcode.rs)                                *)
(***************************************************************************)
\* Machine i is about to execute an Input on a channel that is empty and
\* has no Sender left.
Starved(i) ==
  /\ AtWord(i) /\ Decode(am[i]).ok /\ Decode(am[i]).opcode = 3
  /\ RecvFails(chan[i])

\* C19: an Input that executes on an empty input channel whose Senders are
\* all dropped stores nothing and receives nothing: memory and relative
\* base are as before, the loop of run ends by the receive error and not
\* by a panic, and from then on the machine executes nothing: its state
\* (but for a cell the caller stores to), what it has read and what it has
\* emitted stay as they are.
C19_StarvationEndsRun ==
  [][ \A i \in DOMAIN am :
        /\ Starved(i) =>
             /\ am'[i].mem = am[i].mem
             /\ am'[i].relative_base = am[i].relative_base
             /\ ~am'[i].halted
             /\ reads'[i] = reads[i]
             /\ emitted'[i] = emitted[i]
             /\ st'[i] \in {"running", "drop_input"}
             /\ st'[i] = "drop_input" => exit'[i] = "recv_err"
             /\ am'[i] # am[i] => st'[i] = "drop_input"
        /\ exit[i] = "recv_err" =>
             /\ ~CallerStores => am'[i] = am[i]
             /\ reads'[i] = reads[i]
             /\ emitted'[i] = emitted[i]
             /\ exit'[i] = "recv_err"
             /\ st'[i] \in {"drop_input", "drop_output", "finished"}
    ]_vars

\* C19 witness: the program 3,0,4,0,99 was given no input and its Sender
\* was dropped: run is over by the receive error, the memory is the
\* program, nothing was read or emitted.
C19_Witness ==
  /\ call = "machine"
  /\ program = << 3, 0, 4, 0, 99 >>
  /\ exit[0] = "recv_err"
  /\ st[0] = "finished"
  /\ am[0].mem = NewMachine(program).mem
  /\ reads[0] = << >>
  /\ emitted[0] = << >>

\* Machine i is about to execute an Output on a channel whose Receiver is
\* dropped.
Unheard(i) ==
  /\ AtWord(i) /\ Decode(am[i]).ok /\ Decode(am[i]).opcode = 4
  /\ chan[i + 1].rx = "none"

\* C20: an Output that executes after the Receiver of the output channel
\* was dropped emits nothing, the loop of run ends by the send error and
\* not by a panic, and from then on the machine executes nothing: only a
\* store() of the caller changes a cell.
C20_VanishedConsumerEndsRun ==
  [][ \A i \in DOMAIN am :
        /\ Unheard(i) =>
             /\ am'[i].mem = am[i].mem
             /\ am'[i].relative_base = am[i].relative_base
             /\ ~am'[i].halted
             /\ emitted'[i] = emitted[i]
             /\ chan'[i + 1].q = chan[i + 1].q
             /\ st'[i] \in {"running", "drop_input"}
             /\ st'[i] = "drop_input" => exit'[i] = "send_err"
             /\ am'[i] # am[i] => st'[i] = "drop_input"
        /\ exit[i] = "send_err" =>
             /\ ~CallerStores => am'[i] = am[i]
             /\ reads'[i] = reads[i]
             /\ emitted'[i] = emitted[i]
             /\ exit'[i] = "send_err"
             /\ st'[i] \in {"drop_input", "drop_output", "finished"}
    ]_vars

\* C20 witness: the program 3,0,4,0,99 read the value 1, its consumer had
\* gone before the Output: run is over by the send error, nothing emitted.
C20_Witness ==
  /\ call = "machine"
  /\ program = << 3, 0, 4, 0, 99 >>
  /\ reads[0] = << 1 >>
  /\ exit[0] = "send_err"
  /\ st[0] = "finished"
  /\ ~am[0].halted
  /\ emitted[0] = << >>


(***************************************************************************)
(* run_output of day7.rs                                                   *)
(***************************************************************************)
\* C21: run_output steps the machine only while it is not halted and no
\* output is buffered, so no instruction executes after the one that
\* produced an output; it returns the oldest buffered output, that is the
\* first emitted value not yet read back, and removes it; it returns None
\* exactly when the machine has halted with no output buffered; when the
\* value returned was the only one buffered the buffer is empty afterwards.
C21_RunOutput ==
  [][ call = "day7_machine" /\ pc7 = "run_output" =>
        /\ pc7' = "run_output" /\ am7' # am7 =>
             /\ ~am7[0].halted
             /\ am7[0].output = << >>
        /\ pc7' = "idle" =>
             /\ am7[0].halted \/ am7[0].output # << >>
             /\ ret7' = None <=> (am7[0].halted /\ am7[0].output = << >>)
             /\ am7[0].output # << >> =>
                  /\ ret7' = Some(emitted7[0][Len(taken7[0]) + 1])
                  /\ Len(am7'[0].output) = Len(am7[0].output) - 1
                  /\ taken7'[0] = Append(taken7[0], emitted7[0][Len(taken7[0]) + 1])
                  /\ Len(am7[0].output) = 1 => am7'[0].output = << >>
             /\ am7'[0].pc = am7[0].pc
             /\ am7'[0].mem = am7[0].mem
    ]_vars

\* C21 witness: run_output on the program 3,0,4,0,99 with input 1 returned
\* Some(1) right after the Output at address 2: the machine stands at
\* address 4, not halted, and its output buffer is empty.
C21_Witness ==
  /\ call = "day7_machine"
  /\ program = << 3, 0, 4, 0, 99 >>
  /\ returned7 = "run_output"
  /\ ret7 = Some(1)
  /\ am7[0].pc = 4
  /\ ~am7[0].halted
  /\ am7[0].output = << >>
  /\ pc7 = "idle"


(***************************************************************************)
(* Program loading (intcode.rs IntcodeMachine::new)                        *)
(***************************************************************************)
\* Scratch cells looked at beyond the program.
ScratchCells(p) == {Len(p), Len(p) + 1, MEMORY - 1}

\* Machine i is as IntcodeMachine::new(p, ..) leaves it.
Loaded(i, p) ==
  /\ \A a \in 0..(Len(p) - 1) : load(am[i].mem, a) = p[a + 1]
  /\ DOMAIN am[i].mem \subseteq 0..(Len(p) - 1)
  /\ \A a \in ScratchCells(p) : load(am[i].mem, a) = 0
  /\ am[i].pc = 0
  /\ am[i].relative_base = 0
  /\ ~am[i].halted

\* Machine i is about to store into cell a.
StoresTo(i, a) ==
  /\ AtWord(i) /\ Decode(am[i]).ok
  /\ Decode(am[i]).opcode \in {1, 2, 3, 7, 8}
  /\ Decode(am[i]).r[Len(Decode(am[i]).r)] = a

\* C22: a machine created from program p has mem[a] = p[a] on the
\* program's addresses, 0 in every cell beyond, pc = 0, relative base 0 and
\* halted = false; and a cell changes only by a step of an instruction that
\* stores to it or by the caller's store() to it, so the loaded cells equal
\* p until the first store to them.
C22_ProgramLoaded ==
  /\ \A i \in DOMAIN am : Loaded(i, program)
  /\ [][ \A i \in DOMAIN am :
           \A a \in (DOMAIN am[i].mem) \cup (DOMAIN am'[i].mem) :
             load(am'[i].mem, a) # load(am[i].mem, a)
               => StoresTo(i, a) \/ CallerStoresTo(i, a)
       ]_vars

\* C22 witness: the machine loaded with 3,0,4,0,99 has stored the input 1
\* into cell 0; cells 1..4 still hold the program and cell 5 holds 0.
C22_Witness ==
  /\ call = "machine"
  /\ program = << 3, 0, 4, 0, 99 >>
  /\ reads[0] = << 1 >>
  /\ load(am[0].mem, 0) = 1
  /\ \A a \in 1..4 : load(am[0].mem, a) = program[a + 1]
  /\ load(am[0].mem, 5) = 0


(***************************************************************************)
(* Program parsing (SpecParse)                                             *)
(***************************************************************************)
\* The text up to its first line ending, "\n" or "\r\n".
FirstLine(s) ==
  IF \A n \in 1..Len(s) : s[n] # "\n" THEN s
  ELSE StripCR(SubSeq(s, 1, (CHOOSE k \in 1..Len(s) :
                               s[k] = "\n" /\ \A j \in 1..(k - 1) : s[j] # "\n") - 1))

\* The integers of the loader's type among the comma-separated tokens of
\* the first line.
FirstLineIntegers(s, n) == FilterParse(Split(FirstLine(s), ","), n)

LoaderWidth == IF parsed.loader = "day5_program" THEN 2 ELSE 4

\* C23: every loader returns exactly the comma-separated signed integers of
\* the first line of the text, in textual order: a trailing newline after
\* the last integer changes nothing and a token that is no integer is
\* dropped without affecting the others (parse_program returns no vector
\* only for the empty text, which has no line).
C23_LoaderFirstLine ==
  parsed.loader # "" =>
    /\ parsed.some => parsed.v = FirstLineIntegers(text, LoaderWidth)
    /\ ~parsed.some => text = << >>

\* The same for parse_program of intcode.rs alone.
ParseProgramFirstLine == parsed.loader = "day5_program" \/ C23_LoaderFirstLine


(***************************************************************************)
(* The test programs of intcode.rs (SpecTests, SpecTestsFair)              *)
(***************************************************************************)
\* C24: the program 109,1,204,-1,1001,100,1,100,1008,100,16,101,1006,101,
\* 0,99, which takes no input, emits its own 16 loaded words in order and
\* then halts: what it has emitted is always a prefix of the program, its
\* run ends by nothing but the halt, with the whole program emitted, and
\* the run does end.
C24_Quine ==
  /\ [](program = Quine =>
          /\ IsPrefix(emitted[0], program)
          /\ reads[0] = << >>
          /\ exit[0] \in {"", "halted"}
          /\ exit[0] = "halted" => (emitted[0] = program /\ am[0].halted))
  /\ (program = Quine ~> (st[0] = "finished" /\ exit[0] = "halted"))

\* C24 witness: the run of the program is over by the halt and the 16
\* values emitted are the program.
C24_Witness ==
  /\ call = "test"
  /\ program = Quine
  /\ st[0] = "finished"
  /\ exit[0] = "halted"
  /\ Len(emitted[0]) = 16
  /\ emitted[0] = program


\* Pairwise coprime moduli whose product exceeds every 5-digit base-10000
\* number: two such numbers with the same residues are equal.
Moduli == {46337, 46327, 46309, 46307, 46301}

\* The residue of the number with base-10000 digits x (least significant
\* first).
RECURSIVE LimbsMod(_, _)
LimbsMod(x, p) ==
  IF x = << >> THEN 0
  ELSE ((LimbsMod(Tail(x), p) * Limb) + Head(x)) % p

\* A well-formed wide value: at most 5 digits, each within the base, no
\* leading zero, and too large for 32 bits.
IsWide(v) ==
  /\ Big(v)
  /\ Len(v.limbs) \in 3..5
  /\ \A k \in 1..Len(v.limbs) : v.limbs[k] \in 0..(Limb - 1)
  /\ v.limbs[Len(v.limbs)] # 0

\* v is the exact product of a and b.
ExactProduct(v, a, b) ==
  IF a = 0 \/ b = 0 \/ Abs(a) <= MaxInt \div Abs(b) THEN v = a * b
  ELSE /\ IsWide(v)
       /\ v.neg = ((a < 0) # (b < 0))
       /\ \A p \in Moduli :
            LimbsMod(v.limbs, p) = ((Abs(a) % p) * (Abs(b) % p)) % p

\* v is the exact sum of a and b.
ExactSum(v, a, b) ==
  IF (a >= 0 /\ b >= 0 /\ a > MaxInt - b) \/ (a < 0 /\ b < 0 /\ -a > MaxInt + b)
    THEN /\ IsWide(v)
         /\ v.neg = (a < 0)
         /\ \A p \in Moduli :
              LimbsMod(v.limbs, p) = ((Abs(a) % p) + (Abs(b) % p)) % p
    ELSE v = a + b

\* Test programs without a jump word whose first instruction is an Add or
\* a Multiply: the machine stands at address 4 right after it, once.
StraightArithmetic(p) ==
  /\ \A n \in 1..Len(p) : RemT(p[n], 100) \notin {5, 6}
  /\ Decode(NewMachine(p)).ok
  /\ Decode(NewMachine(p)).opcode \in {1, 2}

\* C25: Add and Multiply store the exact mathematical sum and product, with
\* no truncation to 32 bits: right after the first instruction of a test
\* program the destination cell holds a value that has the residues of the
\* exact result for moduli that determine it; 34915192 * 34915192 stores
\* and outputs 1219070632396864 (base-10000 digits 1219 0706 3239 6864).
C25_ExactArithmetic ==
  call = "test" =>
    /\ (StraightArithmetic(program) /\ am[0].pc = 4) =>
         LET d == Decode(NewMachine(program))
             v == am[0].mem[d.r[3]]
         IN  IF d.opcode = 2 THEN ExactProduct(v, d.r[1], d.r[2])
             ELSE ExactSum(v, d.r[1], d.r[2])
    /\ program = BigMultiply =>
         /\ exit[0] \in {"", "halted"}
         /\ am[0].pc >= 4 => Same(am[0].mem[7], Wide(FALSE, << 6864, 3239, 706, 1219 >>))
         /\ emitted[0] # << >> =>
              /\ Len(emitted[0]) = 1
              /\ Same(emitted[0][1], Wide(FALSE, << 6864, 3239, 706, 1219 >>))

\* C25 witness: the program 1102,34915192,34915192,7,4,7,99,0 has stored
\* 1219070632396864 in cell 7, emitted it and halted.
C25_Witness ==
  /\ call = "test"
  /\ program = BigMultiply
  /\ exit[0] = "halted"
  /\ am[0].mem[7] = Wide(FALSE, << 6864, 3239, 706, 1219 >>)
  /\ emitted[0] = << Wide(FALSE, << 6864, 3239, 706, 1219 >>) >>


\* The instruction word with mode digit k replaced by md.
WithMode(word, k, md) == word + (md - ModeOf(word, k)) * 100 * Pow10(k - 1)

\* The machine whose next instruction has operand k encoded as (md, raw):
\* the mode digit in the instruction word and the operand's cell differ.
Reencode(m, k, md, raw) ==
  [m EXCEPT !.mem = store(store(m.mem, m.pc, WithMode(load(m.mem, m.pc), k, md)),
                          m.pc + k, raw)]

\* The cells that hold the encoding of operand k.
EncodingCells(m, k) == {m.pc, m.pc + k}

\* Raw operands to encode with: the addresses around the program and the
\* values its cells hold.
RawsOf(m) == (-1..12) \cup {m.mem[a] : a \in DOMAIN m.mem}

\* One tick on a machine whose output Receiver is alive: the machine after
\* it and the values sent.
Effect(m) ==
  LET d == Decode(m)
  IN  IF ~d.ok THEN [ok |-> FALSE, m |-> m, out |-> << >>]
      ELSE IF d.opcode = 4
             THEN [ok |-> TRUE, m |-> [m EXCEPT !.pc = d.pc], out |-> << d.r[1] >>]
      ELSE [ok |-> TickLocal(m, d).ok, m |-> TickLocal(m, d).m, out |-> << >>]

\* Two ticks with the same outcome: the same next pc, relative base, halt
\* flag and output, and the same memory apart from the cells in apart.
SameEffect(e1, e2, apart) ==
  /\ e1.ok = e2.ok
  /\ e1.ok =>
       /\ e1.m.pc = e2.m.pc
       /\ e1.m.relative_base = e2.m.relative_base
       /\ e1.m.halted = e2.m.halted
       /\ e1.out = e2.out
       /\ \A a \in ((DOMAIN e1.m.mem) \cup (DOMAIN e2.m.mem)) \ apart :
            load(e1.m.mem, a) = load(e2.m.mem, a)

\* Operand k of the next instruction is a read operand of an instruction
\* that decodes.
ReadOperand(m, k) ==
  /\ Decode(m).ok
  /\ k \in 1..Len(Perms(Decode(m).opcode))
  /\ Perms(Decode(m).opcode)[k] = "Read"

\* The encoding (md, raw) of operand k resolves to the value the operand has
\* in m.
SameValue(m, k, md, raw) ==
  Operand(Reencode(m, k, md, raw), k, "Read")
    = [ok |-> TRUE, val |-> Decode(m).r[k], overflow |-> FALSE]

\* Every other operand resolves as it does in m.
OthersUntouched(m, k, md, raw) ==
  \A j \in (1..Len(Perms(Decode(m).opcode))) \ {k} :
    Operand(Reencode(m, k, md, raw), j, Perms(Decode(m).opcode)[j])
      = Operand(m, j, Perms(Decode(m).opcode)[j])

AtModeWord == call = "test" /\ st[0] = "running" /\ am[0].pc = ModeWordAt

\* C26 as stated: whenever two encodings of a read operand resolve to the
\* same value, the instruction has the same effect under both (next pc,
\* relative base, output, and memory apart from the cells of the encoding).
C26_ModeInvariance ==
  AtModeWord =>
    \A k \in 1..3 : ReadOperand(am[0], k) =>
      \A md \in Modes : \A raw \in RawsOf(am[0]) :
        SameValue(am[0], k, md, raw) =>
          SameEffect(Effect(Reencode(am[0], k, md, raw)), Effect(am[0]),
                     EncodingCells(am[0], k))

\* C26: mode invariance where no other operand of the instruction reads the
\* cells of the encoding: whenever two encodings of a read operand resolve
\* to the same value and every other operand resolves as before, the
\* instruction has the same effect under both (next pc, relative base,
\* output, and memory apart from the cells of the encoding).
C26_ModeInvarianceApart ==
  AtModeWord =>
    \A k \in 1..3 : ReadOperand(am[0], k) =>
      \A md \in Modes : \A raw \in RawsOf(am[0]) :
        (SameValue(am[0], k, md, raw) /\ OthersUntouched(am[0], k, md, raw)) =>
          SameEffect(Effect(Reencode(am[0], k, md, raw)), Effect(am[0]),
                     EncodingCells(am[0], k))

\* C26 witness: the machine is at an Add whose first operand reads 40 from
\* cell 8 in position mode; the immediate encoding 40 and the relative
\* encoding 7 (base 1) resolve to 40 too, leave the second operand alone and
\* differ from the encoding in memory.
C26_Witness ==
  /\ AtModeWord
  /\ Decode(am[0]).ok
  /\ Decode(am[0]).opcode = 1
  /\ ModeOf(load(am[0].mem, am[0].pc), 1) = 0
  /\ Decode(am[0]).r[1] = 40
  /\ \A md \in {1, 2} : \E raw \in RawsOf(am[0]) :
       /\ SameValue(am[0], 1, md, raw)
       /\ OthersUntouched(am[0], 1, md, raw)
       /\ Reencode(am[0], 1, md, raw) # am[0]
       /\ Effect(am[0]).ok


\* The program holds no Input and no Output word.
IOFree(p) == \A n \in 1..Len(p) : RemT(p[n], 100) \notin {3, 4}

\* C27 as stated: run() on a program without opcode 3 and 4 whose executed
\* words all decode, with addresses inside the memory, returns: from every
\* state of such a run that has not panicked the thread goes on to finish.
\* (Each tick is a function of the machine alone, so the memory a run ends
\* with is determined by the program; the run of 1105,1,0 never ends.)
C27_IOFreeTerminates ==
  (call = "test" /\ program \in IOFreePrograms /\ IOFree(program) /\ exit[0] # "panic")
    ~> (st[0] = "finished" \/ exit[0] = "panic")


\* print_instruction: the number of cells of an instruction, its word
\* included.
Offset(opcode) ==
  CASE opcode \in {1, 2, 7, 8} -> 4
    [] opcode \in {3, 4, 9}    -> 2
    [] opcode \in {5, 6}       -> 3
    [] OTHER                   -> 1

Arity(opcode) == Offset(opcode) - 1

\* The decoded instruction is a jump whose condition holds.
JumpTaken(d) ==
  \/ d.opcode = 5 /\ d.r[1] # 0
  \/ d.opcode = 6 /\ d.r[1] = 0

\* C28: a valid instruction at pc = p decodes to as many operands as its
\* arity (3 for Add, Multiply, LessThan, Equals; 2 for the jumps; 1 for
\* Input, Output, RelativeBase; 0 for Exit) and decoding leaves
\* pc = p + 1 + arity; once the tick has applied the instruction, pc has
\* that value unless a taken jump has set it to its target.
C28_DecodeWidth ==
  /\ \A i \in DOMAIN am :
       (AtWord(i) /\ Decode(am[i]).ok) =>
         /\ Len(Decode(am[i]).r) = Arity(Decode(am[i]).opcode)
         /\ Decode(am[i]).pc = am[i].pc + 1 + Arity(Decode(am[i]).opcode)
  /\ [][ \A i \in DOMAIN am :
           (AtWord(i) /\ Decode(am[i]).ok /\ am'[i] # am[i]) =>
             am'[i].pc = IF JumpTaken(Decode(am[i])) THEN Decode(am[i]).r[2]
                         ELSE am[i].pc + 1 + Arity(Decode(am[i]).opcode)
       ]_vars

\* C28 witness: a tick has applied the three-operand instruction at pc 6
\* of a decode program and pc is 10; the two-cell RelativeBase before it
\* had left pc at 2 and the four-cell Add after that at 6.
C28_Witness ==
  /\ call = "machine"
  /\ program \in DecodePrograms
  /\ RemT(program[7], 100) \in {1, 2, 7, 8}
  /\ am[0].pc = 10
  /\ st[0] = "running"


\* The next instruction of thread i decodes to a jump.
AtJump(i) == AtWord(i) /\ Decode(am[i]).ok /\ Decode(am[i]).opcode \in {5, 6}

\* C29: JumpIfTrue(a, b) sets pc to b exactly when a # 0 and
\* JumpIfFalse(a, b) exactly when a = 0; otherwise pc is the address just
\* past the two operands; the tick changes neither the memory, nor the
\* relative base, nor the halt flag, nor a queue, nor what was read or
\* sent, and the run() loop goes on.
C29_JumpSemantics ==
  [][ \A i \in DOMAIN am :
        (AtJump(i) /\ am'[i] # am[i]) =>
          LET d == Decode(am[i])
              a == d.r[1]
              b == d.r[2]
          IN  /\ d.opcode = 5 => am'[i].pc = IF a # 0 THEN b ELSE am[i].pc + 3
              /\ d.opcode = 6 => am'[i].pc = IF a = 0 THEN b ELSE am[i].pc + 3
              /\ am'[i].mem = am[i].mem
              /\ am'[i].relative_base = am[i].relative_base
              /\ am'[i].halted = am[i].halted
              /\ emitted' = emitted
              /\ reads' = reads
              /\ \A k \in DOMAIN chan : chan'[k].q = chan[k].q
              /\ st' = st
              /\ exit' = exit
    ]_vars

\* C29 witness: the JumpIfFalse at pc 6 of a decode program found 0 in its
\* first operand and has set pc to its second operand, 10, not to 9.
C29_Witness ==
  /\ call = "machine"
  /\ program \in DecodePrograms
  /\ RemT(program[7], 100) = 6
  /\ am[0].pc = 10
  /\ am[0].relative_base # 0
  /\ st[0] = "running"


\* The next instruction of thread i decodes to Add, Multiply, LessThan or
\* Equals.
AtStore(i) == AtWord(i) /\ Decode(am[i]).ok /\ Decode(am[i]).opcode \in {1, 2, 7, 8}

\* What the instruction with resolved operands a and b stores.
Stored(opcode, a, b) ==
  CASE opcode = 1 -> a + b
    [] opcode = 2 -> a * b
    [] opcode = 7 -> (IF a < b THEN 1 ELSE 0)
    [] OTHER      -> (IF a = b THEN 1 ELSE 0)

\* C30: Add, Multiply, LessThan and Equals with resolved operands
\* (a, b, dst) write a + b, a * b, (1 if a < b else 0) and (1 if a = b
\* else 0) to mem[dst]; the tick changes no other memory cell, nor the
\* relative base, nor the halt flag, nor a queue, nor what was read or
\* sent.
C30_StoreFrame ==
  [][ \A i \in DOMAIN am :
        (AtStore(i) /\ am'[i] # am[i]) =>
          LET d   == Decode(am[i])
              dst == d.r[3]
          IN  /\ InBounds(dst)
              /\ load(am'[i].mem, dst) = Stored(d.opcode, d.r[1], d.r[2])
              /\ \A a \in ((DOMAIN am[i].mem) \cup (DOMAIN am'[i].mem)) \ {dst} :
                   load(am'[i].mem, a) = load(am[i].mem, a)
              /\ am'[i].relative_base = am[i].relative_base
              /\ am'[i].halted = am[i].halted
              /\ emitted' = emitted
              /\ reads' = reads
              /\ chan' = chan
    ]_vars

\* C30 witness: the Multiply at pc 6 of a decode program, with relative
\* base 2 and a relative destination, has stored 40 * 99 in cell 12 (raw
\* operand 10 plus the base), cell 12 held 40 before, and the cells around
\* it still hold the program's values.
C30_Witness ==
  /\ call = "machine"
  /\ program \in DecodePrograms
  /\ RemT(program[7], 100) = 2
  /\ am[0].pc = 10
  /\ am[0].relative_base = 2
  /\ load(am[0].mem, 12) = 40 * 99
  /\ load(am[0].mem, 11) = 30
  /\ load(am[0].mem, 13) = 50


\* The next instruction of thread i decodes to RelativeBase.
AtRelativeBase(i) == AtWord(i) /\ Decode(am[i]).ok /\ Decode(am[i]).opcode = 9

\* C31: the relative base is 0 when the machine is created; a tick that
\* applies opcode 9 adds the resolved operand to it; every other step (any
\* other instruction, a panic while decoding or storing, a failed recv or
\* send, the end of run()) leaves it as it was.
C31_RelativeBaseFrame ==
  /\ \A i \in DOMAIN am : am[i] = NewMachine(program) => am[i].relative_base = 0
  /\ NewMachine(program).relative_base = 0
  /\ [][ \A i \in DOMAIN am :
           am'[i].relative_base =
             IF AtRelativeBase(i) /\ am'[i] # am[i]
               THEN am[i].relative_base + Decode(am[i]).r[1]
               ELSE am[i].relative_base
       ]_vars

\* C31 witness: a decode program has set the base to 2 with 109,2, kept it
\* over the Add at pc 2, and the RelativeBase at pc 6 with the immediate
\* operand 10 has made it 12.
C31_Witness ==
  /\ call = "machine"
  /\ program \in DecodePrograms
  /\ program[7] = 109
  /\ am[0].pc = 8
  /\ am[0].relative_base = 12


\* C32 as stated: in a pipeline of N machines the values machine i + 1 has
\* received after its phase value are, in order, the values machine i has
\* emitted (none lost, duplicated or taken by another machine), and the
\* values the caller has received are those machine N - 1 has emitted.
C32_LinkDelivery ==
  call \in {"amplification_circuit", "feedback_loop"} =>
    /\ \A i \in Amps \ {0} :
         reads[i] # << >> => IsPrefix(Tail(reads[i]), emitted[i - 1])
    /\ N > 0 => IsPrefix(observed, emitted[N - 1])

\* s without the first occurrence of v.
RECURSIVE WithoutFirst(_, _)
WithoutFirst(s, v) ==
  IF s = << >> THEN << >>
  ELSE IF Head(s) = v THEN Tail(s)
  ELSE << Head(s) >> \o WithoutFirst(Tail(s), v)

\* What the links do deliver: the values machine i + 1 has received, its
\* phase value set aside wherever it stands among them, are in order the
\* values machine i has emitted, and the caller has received values of
\* machine N - 1 in order.
LinkDeliveryApartFromPhase ==
  call \in {"amplification_circuit", "feedback_loop"} =>
    /\ \A i \in Amps \ {0} :
         \/ IsPrefix(WithoutFirst(reads[i], phases[i + 1]), emitted[i - 1])
         \/ IsPrefix(reads[i], emitted[i - 1])
    /\ N > 0 => IsPrefix(observed, emitted[N - 1])





\* C33 as stated: in feedback_loop the values machine 0 has read are its
\* phase, the seed 0 and then, in order, values machine N - 1 has emitted;
\* and when feedback_loop has returned a value with every thread joined,
\* the caller has received every value machine N - 1 emitted.
C33_FeedbackRelay ==
  (call = "feedback_loop" /\ N > 0) =>
    /\ IsPrefix(reads[0], << phases[1], 0 >> \o emitted[N - 1])
    /\ (opc = "returned" /\ result.state = "some" /\ joined = Amps) =>
         observed = emitted[N - 1]

\* What the relay does deliver: machine 0 reads its phase, the seed and
\* then values of machine N - 1 in order, each at most once.
FeedbackRelayInOrder ==
  (call = "feedback_loop" /\ N > 0) =>
    /\ IsPrefix(reads[0], << phases[1], 0 >> \o observed)
    /\ IsPrefix(observed, emitted[N - 1])


\* Thread i of intcode.rs is at an Input and its machine was created
\* without an input channel.
NoInputChannel(i) ==
  /\ call = "machine"
  /\ st[i] = "running"
  /\ Decode(am[i]).ok /\ Decode(am[i]).opcode = 3
  /\ chan[i] = Absent

\* The machine of day7.rs, inside run() or run_output(), is at an Input and
\* its input list is empty.
NoInput7 ==
  /\ call = "day7_machine"
  /\ \/ pc7 = "run" /\ RunLoop7(am7[k7])
     \/ pc7 = "run_output" /\ RunOutputLoop7(am7[k7])
  /\ Decode7(am7[k7]).ok /\ Decode7(am7[k7]).opcode = 3
  /\ am7[k7].input = << >>

\* The machine of day5.rs, inside run(), is at an Input and its input
\* vector is empty.
NoInput5 ==
  /\ call = "day5_machine"
  /\ pc7 = "run5" /\ RunLoop5(am7[0])
  /\ Decode5(am7[0]).ok /\ Decode5(am7[0]).opcode = 3
  /\ am7[0].input = << >>

\* C34: an Input that finds no value available in the in-process machines
\* (day7.rs, day5.rs), or in a machine of intcode.rs created without an
\* input channel, is fatal: the only step the machine takes is the panic;
\* it stores nothing, does not move past the instruction, records no read
\* and does not continue.
C34_NoDefaultInput ==
  [][ /\ \A i \in DOMAIN am :
           NoInputChannel(i) =>
             /\ am'[i] = am[i]
             /\ reads'[i] = reads[i]
             /\ emitted'[i] = emitted[i]
             /\ \/ st'[i] = st[i] /\ exit'[i] = exit[i]
                \/ st'[i] = "drop_input" /\ exit'[i] = "panic"
      /\ (NoInput7 \/ NoInput5) =>
           /\ am7' = am7
           /\ reads7' = reads7
           /\ emitted7' = emitted7
           /\ \/ pc7' = pc7 /\ result' = result
              \/ pc7' = "crashed" /\ result' = Panicked
    ]_vars

\* C34 witness: the machine created with no channels on 1101,1,1,0,3,0,99
\* has applied the Add, has panicked at the Input at pc 4 and still holds
\* the memory the Add left, with nothing read.
C34_Witness ==
  /\ call = "machine"
  /\ program = << 1101, 1, 1, 0, 3, 0, 99 >>
  /\ chan[0] = Absent
  /\ exit[0] = "panic"
  /\ am[0].pc = 4
  /\ am[0].mem[0] = 2
  /\ reads[0] = << >>


\* The program halts (99) or faults (empty memory, opcode 0) at its first
\* word, before any Input.
EndsBeforeInput(p) == ~Decode(NewMachine(p)).ok \/ Decode(NewMachine(p)).opcode = 99

\* The value a call returns on such a program when the calling thread is
\* scheduled first: every send finds its Receiver alive, recv_output fails
\* once the last machine has ended, and feedback_loop returns
\* Some(last_output) with last_output still 0 while amplification_circuit
\* returns last_output.ok(), None.
CallerFirstResult == IF call = "feedback_loop" THEN Some(0) ELSE None

\* C35 as stated, on the programs that end before reading any input: the
\* value amplification_circuit or feedback_loop returns is the same in
\* every interleaving, so it is the value returned when the calling thread
\* is scheduled first.
C35_ScheduleIndependent ==
  ( /\ call \in {"amplification_circuit", "feedback_loop"}
    /\ N > 0
    /\ EndsBeforeInput(program)
    /\ opc = "returned" )
  => result = CallerFirstResult

\* The caller-first value is returned in some interleaving: this state is
\* reachable.
CallerFirstReturned ==
  /\ call = "feedback_loop"
  /\ program = << 99 >>
  /\ N = 1
  /\ opc = "returned"
  /\ result = Some(0)


\* Every machine of the pipeline has executed Exit.
AllExited == N > 0 /\ \A i \in Amps : exit[i] = "halted"

\* C36 as stated: once every machine of a threaded pipeline has executed
\* Exit, amplification_circuit or feedback_loop goes on to return with all
\* machine threads joined.
C36_PipelineLiveness ==
  (call \in {"amplification_circuit", "feedback_loop"} /\ AllExited)
    ~> (opc = "returned" /\ joined = Amps)

\* The half that holds: once every machine has executed Exit the call
\* returns; the calling thread does not stay blocked in recv_output,
\* send_input or join.
ReturnsOnceAllExited ==
  (call \in {"amplification_circuit", "feedback_loop"} /\ AllExited)
    ~> (opc = "returned")


(***************************************************************************)
(* day7.rs:190-211 (and tests::test_p2): the round-robin feedback loop on  *)
(* one phase list, as a function of the program and the phases.  Each      *)
(* machine gets its phase, then `'feedback: loop { for amplifier ... }`    *)
(* pushes last_output, calls run_output and stops at the first None.       *)
(***************************************************************************)
\* Ticks one call of run_output may take, and calls of run_output one
\* feedback loop may make, in the evaluation of the function; the code has
\* no such limit, and where a limit is reached the function has no value
\* here ("unfinished").
MaxTicks == 70

MaxCalls == 60

Unfinished == [state |-> "unfinished", v |-> 0]

\* run_output (day7.rs:90-95) of a build with or without overflow checks:
\* state is "returned" with the machine and the value it returns, "panic"
\* where tick panics, "unfinished" where the ticks are used up.
RECURSIVE run_output(_, _, _)
run_output(m, ticks, checks) ==
  IF RunOutputLoop7(m)
    THEN IF ticks = 0 THEN [state |-> "unfinished", m |-> m, ret |-> None]
         ELSE IF ~Tick7(m).ok \/ (checks /\ Overflows7(Decode7(m)))
           THEN [state |-> "panic", m |-> m, ret |-> None]
         ELSE run_output(Tick7(m).m, ticks - 1, checks)
    ELSE IF m.output = << >> THEN [state |-> "returned", m |-> m, ret |-> None]
         ELSE [state |-> "returned", m |-> [m EXCEPT !.output = pop_back(m.output)],
               ret |-> Some(back(m.output))]

\* What the call of run_output in the loop gave decides how the loop goes on.
RECURSIVE feedback(_, _, _, _, _)
Fed(amplifiers, k, last, calls, checks, r) ==
  IF r.state = "unfinished" THEN Unfinished
  ELSE IF r.state = "panic" THEN Panicked
  ELSE IF r.ret = None THEN Some(last)
  ELSE feedback([amplifiers EXCEPT ![k] = r.m],
                (k + 1) % Cardinality(DOMAIN amplifiers), r.ret.v, calls - 1, checks)

\* The loop from machine k on, with last_output = last.
feedback(amplifiers, k, last, calls, checks) ==
  IF calls = 0 THEN Unfinished
  ELSE Fed(amplifiers, k, last, calls, checks,
           run_output(push_input(amplifiers[k], last), MaxTicks, checks))

\* last_output of the loop for one phase list (at least one phase).
SyncFeedback(p, ph, checks) ==
  feedback([i \in 0..(Len(ph) - 1) |-> push_input(NewMachine7(p), ph[i + 1])],
           0, 0, MaxCalls, checks)

\* The loop of day7.rs, run step by step, ends with the value of the function.
SyncFeedbackAgrees ==
  (call = "day7_feedback_loop" /\ result # Pending)
    => \A c \in Checks : SyncFeedback(program, phases, c) \in {result, Unfinished}

\* C37: where the threaded feedback_loop of day07.rs has returned through
\* join_amplifies with every machine halted, and the round-robin loop of
\* day7.rs ends without a panic on the same program and phases, the two
\* return the same final signal.
C37_SameAsSynchronous ==
  \A c \in Checks :
    (/\ call = "feedback_loop" /\ N > 0
     /\ opc = "returned" /\ joined = Amps
     /\ \A i \in Amps : exit[i] = "halted"
     /\ SyncFeedback(program, phases, c).state = "some")
    => result = SyncFeedback(program, phases, c)


(***************************************************************************)
(* The two earlier machines: src/src/day2.rs (memory a Vec<i32> of the     *)
(* program's length) and the binary src/day-2/src/main.rs (a Vec<u32>).    *)
(* Both know the opcodes 1, 2 and 99 only and panic on an index outside    *)
(* the Vec.  A tick ends in one of the states                              *)
(*   "ok"        the instruction was executed,                             *)
(*   "index"     index out of bounds,                                      *)
(*   "opcode"    unreachable!(),                                           *)
(*   "overflow"  the exact result is no i32: day2.rs panics in a debug     *)
(*               build and wraps in a release build, main.rs computes in   *)
(*               usize and stores `v as u32`.                              *)
(***************************************************************************)
Outcome(state, m) == [state |-> state, m |-> m]

\* day2.rs IntcodeMachine::new
NewMachine2(mem) ==
  [ pc     |-> 0,
    mem    |-> [a \in 0..(Len(mem) - 1) |-> mem[a + 1]],
    halted |-> FALSE ]

\* A tick whose Multiply adds.
Tick2_MultiplyAdds(m, checks) ==
  IF ~InVec(m.mem, m.pc) THEN Outcome("index", m)
  ELSE IF Same(m.mem[m.pc], 99)
    THEN Outcome("ok", [m EXCEPT !.pc = m.pc + 1, !.halted = TRUE])
  ELSE IF ~Same(m.mem[m.pc], 1) /\ ~Same(m.mem[m.pc], 2) THEN Outcome("opcode", m)
  ELSE IF \/ \E k \in 1..3 : ~InVec(m.mem, m.pc + k)
          \/ ~InVec(m.mem, m.mem[m.pc + 1])
          \/ ~InVec(m.mem, m.mem[m.pc + 2])
    THEN Outcome("index", m)
  ELSE LET r1 == m.mem[m.mem[m.pc + 1]]
           r2 == m.mem[m.mem[m.pc + 2]]
           r3 == m.mem[m.pc + 3]
       IN  IF checks /\ Overflows32(Sum(r1, r2)) THEN Outcome("overflow", m)
           ELSE IF ~InVec(m.mem, r3) THEN Outcome("index", m)
           ELSE Outcome("ok", [m EXCEPT !.pc = m.pc + 4, !.mem[r3] = Add32(r1, r2)])

\* day2.rs impl From<&mut IntcodeMachine> for Instruction, and tick: the
\* opcode and the operands are read with next(), which advances pc.  Where
\* r1 + r2 or r1 * r2 is no i32 a checks build panics ("overflow") and a
\* release build stores the wrapped value.
Tick2(m, checks) ==
  IF ~InVec(m.mem, m.pc) THEN Outcome("index", m)
  ELSE IF Same(m.mem[m.pc], 99)
    THEN Outcome("ok", [m EXCEPT !.pc = m.pc + 1, !.halted = TRUE])
  ELSE IF ~Same(m.mem[m.pc], 1) /\ ~Same(m.mem[m.pc], 2) THEN Outcome("opcode", m)
  ELSE IF \/ \E k \in 1..3 : ~InVec(m.mem, m.pc + k)
          \/ ~InVec(m.mem, m.mem[m.pc + 1])
          \/ ~InVec(m.mem, m.mem[m.pc + 2])
    THEN Outcome("index", m)
  ELSE LET r1    == m.mem[m.mem[m.pc + 1]]
           r2    == m.mem[m.mem[m.pc + 2]]
           r3    == m.mem[m.pc + 3]
           sum   == Same(m.mem[m.pc], 1)
           exact == IF sum THEN Sum(r1, r2) ELSE Product(r1, r2)
       IN  IF checks /\ Overflows32(exact) THEN Outcome("overflow", m)
           ELSE IF ~InVec(m.mem, r3) THEN Outcome("index", m)
           ELSE Outcome("ok", [m EXCEPT !.pc = m.pc + 4,
                                        !.mem[r3] = IF sum THEN Add32(r1, r2)
                                                    ELSE Mul32(r1, r2)])

\* day2.rs run: while !self.halted { self.tick() }
RECURSIVE run2(_, _)
run2(m, checks) ==
  IF m.halted THEN Outcome("halted", m)
  ELSE IF Tick2(m, checks).state # "ok" THEN Tick2(m, checks)
  ELSE run2(Tick2(m, checks).m, checks)

\* `v as u32` of a usize: the low 32 bits.
AsU32(v) == FromMag(FALSE, FromPieces(Pieces(Mag(v), 2)))

\* main.rs add and multiply: load(r1) op load(r2) in usize, which two u32
\* never overflow, store(r3, v as u32), pc += 4
Arith(m, r1, r2, r3, sum) ==
  IF ~InVec(m.mem, r1) \/ ~InVec(m.mem, r2) \/ ~InVec(m.mem, r3)
    THEN Outcome("index", m)
  ELSE LET v == IF sum THEN Sum(m.mem[r1], m.mem[r2]) ELSE Product(m.mem[r1], m.mem[r2])
       IN  Outcome("ok", [m EXCEPT !.pc = m.pc + 4, !.mem[r3] = AsU32(v)])

\* main.rs tick
TickBin(m) ==
  IF ~InVec(m.mem, m.pc) THEN Outcome("index", m)
  ELSE IF Same(m.mem[m.pc], 99) THEN Outcome("ok", [m EXCEPT !.halted = TRUE])
  ELSE IF ~Same(m.mem[m.pc], 1) /\ ~Same(m.mem[m.pc], 2) THEN Outcome("opcode", m)
  ELSE IF \E k \in 1..3 : ~InVec(m.mem, m.pc + k) THEN Outcome("index", m)
  ELSE Arith(m, m.mem[m.pc + 1], m.mem[m.pc + 2], m.mem[m.pc + 3], Same(m.mem[m.pc], 1))

\* main.rs run
RECURSIVE runBin(_)
runBin(m) ==
  IF m.halted THEN Outcome("halted", m)
  ELSE IF TickBin(m).state # "ok" THEN TickBin(m)
  ELSE runBin(TickBin(m).m)

(***************************************************************************)
(* One instruction over a short memory followed by 99 and two data cells,  *)
(* with operand addresses inside the program, on its last cells, and       *)
(* behind its end, and the programs of the tests.  The large cell makes a  *)
(* product that is no i32; it is not stored over the next instruction.     *)
(***************************************************************************)
BigCell == 50000

EnginePrograms ==
  UNION { { << op, a, b, c, 99, 3, x >> :
              op \in {1, 2}, a \in {0, 5, 6, 7}, b \in {3, 6, 8},
              x \in IF c = 4 THEN {2} ELSE {2, BigCell} } : c \in {0, 4, 6, 7} }
  \cup { << 1101, 1, 1, 0, 99 >>, << 1, 0, 0, 0 >>, << 3, 0, 4, 0, 99 >> }
  \cup IOFreePrograms

InitEngines == InitRun(EnginePrograms)

SpecEngines == InitEngines /\ [][NextTests]_vars

NonNegative(p) == \A k \in DOMAIN p : p[k] >= 0

\* The run of day2.rs in a checks build (TRUE) or a release build (FALSE).
Ran2(checks) == run2(NewMachine2(program), checks)

RanBin == runBin(NewMachine2(program))

\* The run of the intcode.rs machine is over.
RanIntcode == call = "test" /\ 0 \in DOMAIN exit /\ exit[0] # ""

\* The cells [0, len(program)) of the three machines hold the same values.
SameCells(checks) ==
  \A a \in 0..(Len(program) - 1) :
    /\ Same(load(am[0].mem, a), Ran2(checks).m.mem[a])
    /\ Same(Ran2(checks).m.mem[a], RanBin.m.mem[a])

HaltTogether ==
  \A checks \in BOOLEAN :
    /\ (exit[0] = "halted") = (Ran2(checks).state = "halted")
    /\ (Ran2(checks).state = "halted") = (RanBin.state = "halted")
    /\ Ran2(checks).state = "halted" => SameCells(checks)

\* The program executes the opcodes 1, 2 and 99 only, and no sum or product
\* of day2.rs leaves the i32 (a checks build meets no overflow, so a release
\* build runs the same).
AddMultiplyExit ==
  /\ NonNegative(program)
  /\ Ran2(TRUE).state \notin {"opcode", "overflow"}
  /\ RanBin.state # "opcode"

\* Neither main.rs nor day2.rs indexes a cell at or behind len(program).
IndexInside == Ran2(TRUE).state # "index" /\ RanBin.state # "index"

\* C38: on every program that uses only the opcodes 1, 2 and 99 in position
\* mode, with non-negative values and no overflow, the machines of main.rs,
\* day2.rs and intcode.rs halt together and leave the same values in the
\* cells [0, len(program)).
C38_EnginesAgree == (RanIntcode /\ AddMultiplyExit) => HaltTogether

\* C38, with the addresses inside the program: where in addition neither
\* main.rs nor day2.rs indexes a cell at or behind len(program), the three
\* machines halt together and leave the same values in [0, len(program)).
C38_EnginesAgreeInside ==
  (RanIntcode /\ AddMultiplyExit /\ IndexInside) => HaltTogether

\* The example 1,9,10,3,2,3,11,0,99,30,40,50 has ended as 3500,9,10,70,...
\* on the three machines.
C38_Witness ==
  /\ RanIntcode /\ exit[0] = "halted"
  /\ program = << 1, 9, 10, 3, 2, 3, 11, 0, 99, 30, 40, 50 >>
  /\ [a \in 0..11 |-> load(am[0].mem, a)]
       = [a \in 0..11 |-> << 3500, 9, 10, 70, 2, 3, 11, 0, 99, 30, 40, 50 >>[a + 1]]
  /\ Ran2(TRUE).state = "halted" /\ RanBin.state = "halted" /\ SameCells(TRUE)


(***************************************************************************)
(* A caller that calls run() of intcode.rs again on a machine whose run()  *)
(* has returned: with the machine halted, or on Err(Recv) or Err(Send)     *)
(* with the machine not halted.  The loop condition at intcode.rs:194 is   *)
(* tested first.  Where it fails the call goes on to the two take()s at    *)
(* :203-208, which find None where the first call found the channels.      *)
(* Where it holds the machine ticks on from where the first call left it,  *)
(* with self.input and self.output None.  run() of day7.rs is called again *)
(* by MachineRun.                                                          *)
(***************************************************************************)
RunAgain(i) ==
  /\ st[i] = "finished"
  /\ exit[i] # "panic"
  /\ st' = [st EXCEPT ![i] = IF RunLoop(am[i]) THEN "running" ELSE "drop_input"]
  /\ exit' = [exit EXCEPT ![i] = IF RunLoop(am[i]) THEN "" ELSE exit[i]]
  /\ UNCHANGED vars7
  /\ UNCHANGED << varsP, program, phases, call, overflow_checks, opc, it, jn, am, chan, handles,
                  joined, last_output, got, result, emitted, reads, observed >>

SpecRerun ==
  (InitMachine \/ InitMachine7)
    /\ [][NextMachine \/ NextMachine7 \/ \E i \in DOMAIN am : RunAgain(i)]_vars

\* C39: run() on a machine that has halted returns without a tick, for the
\* machines of intcode.rs and of day7.rs and for every repeated call: the
\* call goes from its entry to the end of run() only, and pc, memory,
\* relative base and the halted flag stay as they were (and so do the
\* reason the first run() ended with and the channels the first call has
\* dropped).  A store() of the caller between two calls is no step of
\* run().
C39_RunIdempotent ==
  [][ /\ \A i \in DOMAIN am :
           /\ (am[i].halted /\ ~CallerStores) => am'[i] = am[i]
           /\ (am[i].halted /\ st[i] = "finished")
                => /\ st'[i] \in {"finished", "drop_input"}
                   /\ exit'[i] = exit[i]
           /\ (am[i].halted /\ st[i] \in {"drop_input", "drop_output"})
                => /\ st'[i] \in {"drop_input", "drop_output", "finished"}
                   /\ exit'[i] = exit[i]
                   /\ (InRun(i) /\ chan[i].rx = "none"
                         /\ "machine" \notin chan[i + 1].tx) => chan' = chan
      /\ (call = "day7_machine" /\ pc7 = "run" /\ am7[0].halted)
           => /\ am7'[0] = am7[0]
              /\ pc7' \in {"run", "idle"} ]_vars

\* C39 witness: run() of intcode.rs has been called again on a halted
\* machine (its Receiver was taken and dropped by the first call), has
\* skipped the loop and stands before the take()s.
C39_Witness ==
  /\ call = "machine"
  /\ st[0] = "drop_input"
  /\ am[0].halted
  /\ exit[0] = "halted"
  /\ chan[0].rx = "none"

====
